---- MODULE Spec2Model ----
(***************************************************************************)
(* Traffic and pedestrian simulation core of the isometric city builder:   *)
(* the road-lane grid, the TrafficLightManager (intersection detection,    *)
(* phase cycle, crosswalks), the TrafficManager (vehicles) and the frame   *)
(* loop of MainScene.                                                      *)
(*                                                                         *)
(* Positions are fixed-point: one subtile is UNIT position units, so that  *)
(* CAR_SPEED (0.05 subtile per frame) and its jitter (0.005) are integers. *)
(* Timers are integer milliseconds.                                        *)
(***************************************************************************)
EXTENDS Integers, Sequences, FiniteSets, TLC

VARIABLES
  grid,                \* GridCell[][] shared by the host and the managers
  intersections,       \* TrafficLightManager.intersections (insertion-ordered Map)
  tileToIntersection,  \* TrafficLightManager.tileToIntersection
  cars,                \* TrafficManager.cars
  characters,          \* the ids of the pedestrians the citizen manager holds
  ret,                 \* history: what the last operation returned
  lastOp,              \* history: the operation that produced this state
  elapsed,             \* history: sum of deltaMs since the last setGrid (saturating)
  exact,               \* history: no update overshot a phase end since the last setGrid
  stale,               \* history: the last setGrid replaced non-initial light state,
                       \* the last clear call found something to remove
  seen,                \* history: the phases in force when the last frame called
                       \* the citizen manager and the traffic manager
  edits,               \* history: the number of edits made to the board's grid
  sceneCharacters,     \* MainScene.characters of the scene that moves the
                       \* pedestrians itself
  walker               \* the pedestrian followed across a crosswalk: its inCrosswalk
                       \* flag, the crosswalk it is on and the frames it has walked

vars == <<grid, intersections, tileToIntersection, cars, characters, ret, lastOp, elapsed, exact,
          stale, seen, edits, walker, sceneCharacters>>

(***************************************************************************)
(* Bounds of the model                                                     *)
(***************************************************************************)
GRID_WIDTH == 14
GRID_HEIGHT == 14
MaxElapsed == 30000
MaxPeds == 1
MaxCars == 1
MaxQueue == 2
MaxEdits == 3
CrossingFrames == 3
TurnsCap == 2

(***************************************************************************)
(* Program constants                                                       *)
(***************************************************************************)
ROAD_LANE_SIZE == 2
GREEN_DURATION_MS == 10000
YELLOW_DURATION_MS == 2000
ALL_RED_DURATION_MS == 3000
MIN_CROSSING_TIME_MS == 5000
\* 0.05 subtile per frame, in position units of 0.005 subtile
CAR_SPEED == 10
UNIT == 20 * CAR_SPEED

Min(a, b) == IF a < b THEN a ELSE b
Max(a, b) == IF a > b THEN a ELSE b
Abs(a) == IF a < 0 THEN -a ELSE a

RECURSIVE SeqMin(_)
SeqMin(s) == IF Len(s) = 1 THEN s[1] ELSE Min(s[1], SeqMin(Tail(s)))
RECURSIVE SeqMax(_)
SeqMax(s) == IF Len(s) = 1 THEN s[1] ELSE Max(s[1], SeqMax(Tail(s)))

(***************************************************************************)
(* types.ts / roadUtils.ts: directions and the lane grid                   *)
(***************************************************************************)
Direction == {"up", "down", "left", "right"}

directionVectors(d) ==
  CASE d = "up" -> [dx |-> 0, dy |-> -1]
    [] d = "down" -> [dx |-> 0, dy |-> 1]
    [] d = "left" -> [dx |-> -1, dy |-> 0]
    [] d = "right" -> [dx |-> 1, dy |-> 0]

oppositeDirection(d) ==
  CASE d = "up" -> "down"
    [] d = "down" -> "up"
    [] d = "left" -> "right"
    [] d = "right" -> "left"

rightTurnDirection(d) ==
  CASE d = "up" -> "right"
    [] d = "right" -> "down"
    [] d = "down" -> "left"
    [] d = "left" -> "up"

leftTurnDirection(d) ==
  CASE d = "up" -> "left"
    [] d = "right" -> "up"
    [] d = "down" -> "right"
    [] d = "left" -> "down"

isRoadTileType(type) == type = "roadLane" \/ type = "roadTurn"

\* Math.floor(x / ROAD_LANE_SIZE) * ROAD_LANE_SIZE on both coordinates
getRoadLaneOrigin(x, y) ==
  [x |-> (x \div ROAD_LANE_SIZE) * ROAD_LANE_SIZE,
   y |-> (y \div ROAD_LANE_SIZE) * ROAD_LANE_SIZE]

\* A GridCell; -1 and "none" stand for undefined optional fields.
GrassCell ==
  [type |-> "grass", isOrigin |-> TRUE, originX |-> -1, originY |-> -1,
   laneDirection |-> "none"]

\* What grid[y]?.[x] gives outside the array: undefined.
NoCell ==
  [type |-> "undefined", isOrigin |-> FALSE, originX |-> -1, originY |-> -1,
   laneDirection |-> "none"]

Cells == (0 .. GRID_WIDTH - 1) \X (0 .. GRID_HEIGHT - 1)

InGrid(x, y) == x >= 0 /\ x < GRID_WIDTH /\ y >= 0 /\ y < GRID_HEIGHT

CellAt(g, x, y) == IF InGrid(x, y) THEN g[<<x, y>>] ELSE NoCell

EmptyGrid == [c \in Cells |-> GrassCell]

\* The cells (x + dx, y + dy), dx, dy < ROAD_LANE_SIZE, of a 2x2 block
BlockCells(x, y) ==
  {<<x + dx, y + dy>> : dx \in 0 .. ROAD_LANE_SIZE - 1, dy \in 0 .. ROAD_LANE_SIZE - 1}

\* roadUtils.placeLane2x2: the four cells of a lane block, written together
placeLane2x2(g, originX, originY, direction, tileType) ==
  [c \in Cells |->
     IF /\ c[1] >= originX /\ c[1] < originX + ROAD_LANE_SIZE
        /\ c[2] >= originY /\ c[2] < originY + ROAD_LANE_SIZE
     THEN [type |-> tileType,
           isOrigin |-> (c[1] = originX /\ c[2] = originY),
           originX |-> originX, originY |-> originY,
           laneDirection |-> direction]
     ELSE g[c]]

\* Row-major scan order of the code's "for y ... for x ..." loops
RowMajor == [k \in 1 .. GRID_WIDTH * GRID_HEIGHT |->
               <<(k - 1) % GRID_WIDTH, (k - 1) \div GRID_WIDTH>>]

(***************************************************************************)
(* TrafficLightManager: phases                                             *)
(***************************************************************************)
TrafficPhase ==
  {"ns_green", "ns_yellow", "all_red_1", "ew_green", "ew_yellow", "all_red_2"}

\* A cycle that skips the first clearing phase
getNextPhase_SkipsAllRed(current) ==
  CASE current = "ns_green" -> "ns_yellow"
    [] current = "ns_yellow" -> "ew_green"
    [] current = "all_red_1" -> "ew_green"
    [] current = "ew_green" -> "ew_yellow"
    [] current = "ew_yellow" -> "all_red_2"
    [] current = "all_red_2" -> "ns_green"

getNextPhase(current) ==
  CASE current = "ns_green" -> "ns_yellow"
    [] current = "ns_yellow" -> "all_red_1"
    [] current = "all_red_1" -> "ew_green"
    [] current = "ew_green" -> "ew_yellow"
    [] current = "ew_yellow" -> "all_red_2"
    [] current = "all_red_2" -> "ns_green"

\* Yellow given the all-red duration
getPhaseDuration_LongYellow(phase) ==
  CASE phase \in {"ns_green", "ew_green"} -> GREEN_DURATION_MS
    [] OTHER -> ALL_RED_DURATION_MS

getPhaseDuration(phase) ==
  CASE phase \in {"ns_green", "ew_green"} -> GREEN_DURATION_MS
    [] phase \in {"ns_yellow", "ew_yellow"} -> YELLOW_DURATION_MS
    [] phase \in {"all_red_1", "all_red_2"} -> ALL_RED_DURATION_MS

\* East-west released one phase early, while north-south is still yellow
getColorForDirection_EarlyGreen(phase, isNorthSouth) ==
  IF isNorthSouth
  THEN CASE phase = "ns_green" -> "green"
         [] phase = "ns_yellow" -> "yellow"
         [] OTHER -> "red"
  ELSE CASE phase = "ns_yellow" -> "green"
         [] phase = "ew_green" -> "green"
         [] phase = "ew_yellow" -> "yellow"
         [] OTHER -> "red"

getColorForDirection(phase, isNorthSouth) ==
  IF isNorthSouth
  THEN CASE phase = "ns_green" -> "green"
         [] phase = "ns_yellow" -> "yellow"
         [] phase = "all_red_1" -> "red"
         [] phase = "ew_green" -> "red"
         [] phase = "ew_yellow" -> "red"
         [] phase = "all_red_2" -> "red"
         [] OTHER -> "red"
  ELSE CASE phase = "ns_green" -> "red"
         [] phase = "ns_yellow" -> "red"
         [] phase = "all_red_1" -> "red"
         [] phase = "ew_green" -> "green"
         [] phase = "ew_yellow" -> "yellow"
         [] phase = "all_red_2" -> "red"
         [] OTHER -> "red"

(***************************************************************************)
(* TrafficLightManager.detectIntersections                                 *)
(***************************************************************************)
\* The RoadTurn origins with a direction, in scan order
TurnTilesOf(g) ==
  LET isTurn(c) == /\ g[c].type = "roadTurn"
                   /\ g[c].isOrigin
                   /\ g[c].laneDirection # "none"
      found == SelectSeq(RowMajor, isTurn)
  IN [k \in 1 .. Len(found) |->
        [x |-> found[k][1], y |-> found[k][2], dir |-> g[found[k]].laneDirection]]

\* The adjacency test of the grouping loop: touching || closeEnough
TilesConnected(current, other) ==
  LET dx == Abs(other.x - current.x)
      dy == Abs(other.y - current.y)
      touching == \/ (dx <= ROAD_LANE_SIZE /\ dy <= ROAD_LANE_SIZE * 3)
                  \/ (dy <= ROAD_LANE_SIZE /\ dx <= ROAD_LANE_SIZE * 3)
      closeEnough == dx <= ROAD_LANE_SIZE * 3 /\ dy <= ROAD_LANE_SIZE * 3
  IN touching \/ closeEnough

\* A variant that hands back no visited marks, so that the outer loop
\* starts a group at every turn tile
RECURSIVE GroupBfs_Unmarked(_, _, _, _)
GroupBfs_Unmarked(turnTiles, queue, visited, acc) ==
  IF queue = <<>>
  THEN [tiles |-> acc, visited |-> {}]
  ELSE LET current == Head(queue)
           fresh(o) == <<o.x, o.y>> \notin visited /\ TilesConnected(current, o)
           added == SelectSeq(turnTiles, fresh)
       IN GroupBfs_Unmarked(turnTiles, Tail(queue) \o added,
                            visited \cup {<<added[k].x, added[k].y>> : k \in 1 .. Len(added)},
                            Append(acc, current))

\* The BFS of one group: the while (queue.length > 0) loop
RECURSIVE GroupBfs(_, _, _, _)
GroupBfs(turnTiles, queue, visited, acc) ==
  IF queue = <<>>
  THEN [tiles |-> acc, visited |-> visited]
  ELSE LET current == Head(queue)
           fresh(o) == <<o.x, o.y>> \notin visited /\ TilesConnected(current, o)
           added == SelectSeq(turnTiles, fresh)
       IN GroupBfs(turnTiles, Tail(queue) \o added,
                   visited \cup {<<added[k].x, added[k].y>> : k \in 1 .. Len(added)},
                   Append(acc, current))

\* hasRoadInArea: some RoadLane cell in [startX, endX) x [startY, endY)
hasRoadInArea(g, startX, endX, startY, endY) ==
  \E y \in startY .. endY - 1 : \E x \in startX .. endX - 1 :
    CellAt(g, x, y).type = "roadLane"

BoundsOf(tiles) ==
  LET xs == [k \in 1 .. Len(tiles) |-> tiles[k].x]
      ys == [k \in 1 .. Len(tiles) |-> tiles[k].y]
  IN [minX |-> SeqMin(xs), maxX |-> SeqMax(xs) + ROAD_LANE_SIZE,
      minY |-> SeqMin(ys), maxY |-> SeqMax(ys) + ROAD_LANE_SIZE]

countRoadApproaches(g, intersectionTiles) ==
  LET b == BoundsOf(intersectionTiles)
      searchDepth == ROAD_LANE_SIZE * 2
      north == hasRoadInArea(g, b.minX - ROAD_LANE_SIZE, b.maxX + ROAD_LANE_SIZE,
                             b.minY - searchDepth, b.minY)
      south == hasRoadInArea(g, b.minX - ROAD_LANE_SIZE, b.maxX + ROAD_LANE_SIZE,
                             b.maxY, b.maxY + searchDepth)
      west == hasRoadInArea(g, b.minX - searchDepth, b.minX,
                            b.minY - ROAD_LANE_SIZE, b.maxY + ROAD_LANE_SIZE)
      east == hasRoadInArea(g, b.maxX, b.maxX + searchDepth,
                            b.minY - ROAD_LANE_SIZE, b.maxY + ROAD_LANE_SIZE)
      one(f) == IF f THEN 1 ELSE 0
  IN one(north) + one(south) + one(west) + one(east)

\* A variant whose bands start on the outermost row and column of the
\* intersection
MakeCrosswalks_OnTheEdge(b) ==
  LET crosswalkDepth == 2
  IN << [minX |-> b.minX, maxX |-> b.maxX - 1,
         minY |-> b.minY - crosswalkDepth + 1, maxY |-> b.minY,
         approachDirection |-> "down", pedestrianIds |-> {}],
        [minX |-> b.minX, maxX |-> b.maxX - 1,
         minY |-> b.maxY - 1, maxY |-> b.maxY + crosswalkDepth - 2,
         approachDirection |-> "up", pedestrianIds |-> {}],
        [minX |-> b.minX - crosswalkDepth + 1, maxX |-> b.minX,
         minY |-> b.minY, maxY |-> b.maxY - 1,
         approachDirection |-> "right", pedestrianIds |-> {}],
        [minX |-> b.maxX - 1, maxX |-> b.maxX + crosswalkDepth - 2,
         minY |-> b.minY, maxY |-> b.maxY - 1,
         approachDirection |-> "left", pedestrianIds |-> {}] >>

\* The four crosswalk zones pushed for a new intersection, in push order
MakeCrosswalks(b) ==
  LET crosswalkDepth == 2
  IN << [minX |-> b.minX, maxX |-> b.maxX - 1,
         minY |-> b.minY - crosswalkDepth, maxY |-> b.minY - 1,
         approachDirection |-> "down", pedestrianIds |-> {}],
        [minX |-> b.minX, maxX |-> b.maxX - 1,
         minY |-> b.maxY, maxY |-> b.maxY + crosswalkDepth - 1,
         approachDirection |-> "up", pedestrianIds |-> {}],
        [minX |-> b.minX - crosswalkDepth, maxX |-> b.minX - 1,
         minY |-> b.minY, maxY |-> b.maxY - 1,
         approachDirection |-> "right", pedestrianIds |-> {}],
        [minX |-> b.maxX, maxX |-> b.maxX + crosswalkDepth - 1,
         minY |-> b.minY, maxY |-> b.maxY - 1,
         approachDirection |-> "left", pedestrianIds |-> {}] >>

\* Corners (two approaches) get a light too
NeedsTrafficLight_Corner(hasNS, hasEW, nTiles, approachCount) ==
  hasNS /\ hasEW /\ nTiles >= 2 /\ approachCount >= 2

\* The condition under which a group gets a traffic light
NeedsTrafficLight(hasNS, hasEW, nTiles, approachCount) ==
  hasNS /\ hasEW /\ nTiles >= 2 /\ approachCount >= 3

\* An intersection created in the yellow phase with a pedestrian already
\* registered on its first crosswalk
NewIntersection_Dirty(id, tiles, hasNS, hasEW) ==
  [id |-> id,
   tiles |-> [k \in 1 .. Len(tiles) |-> <<tiles[k].x, tiles[k].y>>],
   phase |-> "ns_yellow",
   timer |-> YELLOW_DURATION_MS,
   hasNS |-> hasNS,
   hasEW |-> hasEW,
   crosswalks |-> [MakeCrosswalks(BoundsOf(tiles)) EXCEPT ![1].pedestrianIds = {1}]]

\* A new Intersection object. generateId() is modelled as a fresh id: the
\* position of the intersection in the Map. centerX/centerY (rendering only)
\* are left out.
NewIntersection(id, tiles, hasNS, hasEW) ==
  [id |-> id,
   tiles |-> [k \in 1 .. Len(tiles) |-> <<tiles[k].x, tiles[k].y>>],
   phase |-> "ns_green",
   timer |-> GREEN_DURATION_MS,
   hasNS |-> hasNS,
   hasEW |-> hasEW,
   crosswalks |-> MakeCrosswalks(BoundsOf(tiles))]

\* The outer "for (const tile of turnTiles)" loop
RECURSIVE DetectLoop(_, _, _, _, _, _)
DetectLoop(g, turnTiles, i, visited, inters, t2i) ==
  IF i > Len(turnTiles)
  THEN [intersections |-> inters, tileToIntersection |-> t2i]
  ELSE LET tile == turnTiles[i]
       IN IF <<tile.x, tile.y>> \in visited
          THEN DetectLoop(g, turnTiles, i + 1, visited, inters, t2i)
          ELSE LET r == GroupBfs(turnTiles, <<tile>>, visited \cup {<<tile.x, tile.y>>}, <<>>)
                   its == r.tiles
                   hasNS == \E k \in 1 .. Len(its) : its[k].dir \in {"up", "down"}
                   hasEW == \E k \in 1 .. Len(its) : its[k].dir \in {"left", "right"}
                   approachCount == countRoadApproaches(g, its)
                   id == Len(inters) + 1
                   keys == {<<its[k].x, its[k].y>> : k \in 1 .. Len(its)}
               IN IF NeedsTrafficLight(hasNS, hasEW, Len(its), approachCount)
                  THEN DetectLoop(g, turnTiles, i + 1, r.visited,
                                  Append(inters, NewIntersection(id, its, hasNS, hasEW)),
                                  [t \in DOMAIN t2i \cup keys |->
                                     IF t \in keys THEN id ELSE t2i[t]])
                  ELSE DetectLoop(g, turnTiles, i + 1, r.visited, inters, t2i)

detectIntersections(g) ==
  DetectLoop(g, TurnTilesOf(g), 1, {}, <<>>, [t \in {} |-> 0])

(***************************************************************************)
(* TrafficLightManager: queries (positions in position units, tiles in     *)
(* subtiles)                                                               *)
(***************************************************************************)
Floor(p) == p \div UNIT

\* this.intersections.get(id): position in the Map, 0 when absent
IndexOfId(inters, id) ==
  IF \E k \in 1 .. Len(inters) : inters[k].id = id
  THEN CHOOSE k \in 1 .. Len(inters) : inters[k].id = id
  ELSE 0

\* getIntersectionAt(x, y): index of the intersection owning the lane block, 0 for null
getIntersectionAt(inters, t2i, x, y) ==
  LET origin == getRoadLaneOrigin(x, y)
      key == <<origin.x, origin.y>>
  IN IF key \in DOMAIN t2i THEN IndexOfId(inters, t2i[key]) ELSE 0

getLightColor(inters, t2i, x, y, direction) ==
  LET k == getIntersectionAt(inters, t2i, Floor(x), Floor(y))
      isNS == direction = "up" \/ direction = "down"
  IN IF k = 0 THEN "null" ELSE getColorForDirection(inters[k].phase, isNS)

\* A variant that lets cars through on green only
canProceed_GreenOnly(inters, t2i, x, y, direction) ==
  LET color == getLightColor(inters, t2i, x, y, direction)
  IN IF color = "null" THEN TRUE ELSE color = "green"

canProceed(inters, t2i, x, y, direction) ==
  LET color == getLightColor(inters, t2i, x, y, direction)
  IN IF color = "null" THEN TRUE ELSE color # "red"

\* A variant that stops on yellow from a distance of exactly 2 as well
shouldStop_FromTwo(inters, t2i, x, y, direction, distanceToIntersection) ==
  LET color == getLightColor(inters, t2i, x, y, direction)
  IN CASE color = "null" -> FALSE
       [] color = "red" -> TRUE
       [] color = "green" -> FALSE
       [] OTHER -> distanceToIntersection >= 2 * UNIT

\* distanceToIntersection in position units
shouldStop(inters, t2i, x, y, direction, distanceToIntersection) ==
  LET color == getLightColor(inters, t2i, x, y, direction)
  IN CASE color = "null" -> FALSE
       [] color = "red" -> TRUE
       [] color = "green" -> FALSE
       [] OTHER -> distanceToIntersection > 2 * UNIT

\* The crosswalk's axis is not looked at: every crosswalk opens on green
canCrossAtCrosswalk_AnyAxis(intersection, crosswalk) ==
  /\ intersection.phase \in {"ns_green", "ew_green"}
  /\ intersection.timer >= MIN_CROSSING_TIME_MS

\* A variant that also refuses a crossing with exactly the minimum time left
canCrossAtCrosswalk_StrictMinimum(intersection, crosswalk) ==
  LET isNSCrosswalk == crosswalk.approachDirection \in {"up", "down"}
  IN /\ intersection.timer > MIN_CROSSING_TIME_MS
     /\ \/ intersection.phase = "ns_green" /\ ~isNSCrosswalk
        \/ intersection.phase = "ew_green" /\ isNSCrosswalk

\* A variant that still opens the crosswalk in the last seconds of green
canCrossAtCrosswalk_NoMinimum(intersection, crosswalk) ==
  LET isNSCrosswalk == crosswalk.approachDirection \in {"up", "down"}
  IN \/ intersection.phase = "ns_green" /\ ~isNSCrosswalk
     \/ intersection.phase = "ew_green" /\ isNSCrosswalk

\* A variant that opens the crosswalks of the axis that has green
canCrossAtCrosswalk_GreenAxis(intersection, crosswalk) ==
  LET isNSCrosswalk == crosswalk.approachDirection \in {"up", "down"}
  IN /\ intersection.timer >= MIN_CROSSING_TIME_MS
     /\ \/ intersection.phase = "ns_green" /\ isNSCrosswalk
        \/ intersection.phase = "ew_green" /\ ~isNSCrosswalk

canCrossAtCrosswalk(intersection, crosswalk) ==
  LET phase == intersection.phase
      timeRemaining == intersection.timer
      isNSCrosswalk == crosswalk.approachDirection \in {"up", "down"}
  IN CASE phase \in {"ns_yellow", "ew_yellow", "all_red_1", "all_red_2"} -> FALSE
       [] timeRemaining < MIN_CROSSING_TIME_MS -> FALSE
       [] phase = "ns_green" -> ~isNSCrosswalk
       [] phase = "ew_green" -> isNSCrosswalk
       [] OTHER -> FALSE

canWalkThroughIntersection(inters, t2i, x, y) ==
  LET k == getIntersectionAt(inters, t2i, x, y)
  IN IF k = 0 THEN FALSE ELSE inters[k].phase \in {"ns_green", "ew_green"}

InCrosswalk(cw, tileX, tileY) ==
  tileX >= cw.minX /\ tileX <= cw.maxX /\ tileY >= cw.minY /\ tileY <= cw.maxY

\* getCrosswalkAt(x, y): <<intersection index, crosswalk index>> of the first
\* crosswalk in iteration order that contains the tile, <<0, 0>> for null
getCrosswalkAt(inters, x, y) ==
  LET tileX == Floor(x)
      tileY == Floor(y)
      hits == {<<k, c>> \in (1 .. Len(inters)) \X (1 .. 4) :
                 InCrosswalk(inters[k].crosswalks[c], tileX, tileY)}
  IN IF hits = {} THEN <<0, 0>>
     ELSE CHOOSE h \in hits :
            \A o \in hits : h[1] < o[1] \/ (h[1] = o[1] /\ h[2] <= o[2])

hasPedestriansInCrosswalk(inters, x, y) ==
  LET r == getCrosswalkAt(inters, x, y)
  IN IF r = <<0, 0>> THEN FALSE
     ELSE inters[r[1]].crosswalks[r[2]].pedestrianIds # {}

canCarEnterCrosswalkZone(inters, carX, carY, direction) ==
  LET vec == directionVectors(direction)
  IN \A i \in 1 .. 3 :
       ~hasPedestriansInCrosswalk(inters, carX + vec.dx * i * UNIT,
                                  carY + vec.dy * i * UNIT)

(***************************************************************************)
(* TrafficLightManager: state changes, as functions of the Map             *)
(***************************************************************************)
\* A variant that carries the overshoot into the new phase
UpdateIntersection_CarryOver(it, deltaMs) ==
  LET t == it.timer - deltaMs
  IN IF t <= 0
     THEN [it EXCEPT !.phase = getNextPhase(it.phase),
                     !.timer = getPhaseDuration(getNextPhase(it.phase)) + t]
     ELSE [it EXCEPT !.timer = t]

\* A variant that lets the timer rest at 0 for one more update
UpdateIntersection_StrictExpiry(it, deltaMs) ==
  LET t == it.timer - deltaMs
  IN IF t < 0
     THEN [it EXCEPT !.phase = getNextPhase(it.phase),
                     !.timer = getPhaseDuration(getNextPhase(it.phase))]
     ELSE [it EXCEPT !.timer = t]

\* update(deltaMs) on one intersection
UpdateIntersection(it, deltaMs) ==
  LET t == it.timer - deltaMs
  IN IF t <= 0
     THEN [it EXCEPT !.phase = getNextPhase(it.phase),
                     !.timer = getPhaseDuration(getNextPhase(it.phase))]
     ELSE [it EXCEPT !.timer = t]

UpdateLights(inters, deltaMs) ==
  [k \in 1 .. Len(inters) |-> UpdateIntersection(inters[k], deltaMs)]

enterCrosswalk(inters, pedestrianId, x, y) ==
  LET r == getCrosswalkAt(inters, x, y)
  IN IF r = <<0, 0>> THEN inters
     ELSE [inters EXCEPT ![r[1]].crosswalks[r[2]].pedestrianIds = @ \cup {pedestrianId}]

\* A variant that takes the pedestrian off every crosswalk of the
\* intersection found
leaveCrosswalk_WholeIntersection(inters, pedestrianId, x, y) ==
  LET r == getCrosswalkAt(inters, x, y)
  IN IF r = <<0, 0>> THEN inters
     ELSE [inters EXCEPT ![r[1]].crosswalks =
             [c \in 1 .. 4 |-> [@[c] EXCEPT !.pedestrianIds = @ \ {pedestrianId}]]]

leaveCrosswalk(inters, pedestrianId, x, y) ==
  LET r == getCrosswalkAt(inters, x, y)
  IN IF r = <<0, 0>> THEN inters
     ELSE [inters EXCEPT ![r[1]].crosswalks[r[2]].pedestrianIds = @ \ {pedestrianId}]

\* A variant that visits the first intersection only
removeFromAllCrosswalks_FirstIntersection(inters, pedestrianId) ==
  [k \in 1 .. Len(inters) |->
     IF k > 1 THEN inters[k]
     ELSE [inters[k] EXCEPT !.crosswalks =
             [c \in 1 .. 4 |-> [@[c] EXCEPT !.pedestrianIds = @ \ {pedestrianId}]]]]

removeFromAllCrosswalks(inters, pedestrianId) ==
  [k \in 1 .. Len(inters) |->
     [inters[k] EXCEPT !.crosswalks =
        [c \in 1 .. 4 |-> [@[c] EXCEPT !.pedestrianIds = @ \ {pedestrianId}]]]]

\* A variant that registers the pedestrian at every intersection once the
\* tile belongs to one
registerPedestrianAtIntersection_Everywhere(inters, t2i, pedestrianId, tileX, tileY) ==
  IF getIntersectionAt(inters, t2i, tileX, tileY) = 0 THEN inters
  ELSE [k \in 1 .. Len(inters) |->
          [inters[k] EXCEPT !.crosswalks =
             [c \in 1 .. 4 |-> [@[c] EXCEPT !.pedestrianIds = @ \cup {pedestrianId}]]]]

registerPedestrianAtIntersection(inters, t2i, pedestrianId, tileX, tileY) ==
  LET k == getIntersectionAt(inters, t2i, tileX, tileY)
  IN IF k = 0 THEN inters
     ELSE [inters EXCEPT ![k].crosswalks =
             [c \in 1 .. 4 |-> [@[c] EXCEPT !.pedestrianIds = @ \cup {pedestrianId}]]]

\* A variant that clears the first crosswalk of each intersection only
clearAllPedestrianRegistrations_FirstOnly(inters) ==
  [k \in 1 .. Len(inters) |->
     [inters[k] EXCEPT !.crosswalks[1].pedestrianIds = {}]]

clearAllPedestrianRegistrations(inters) ==
  [k \in 1 .. Len(inters) |->
     [inters[k] EXCEPT !.crosswalks =
        [c \in 1 .. 4 |-> [@[c] EXCEPT !.pedestrianIds = {}]]]]

(***************************************************************************)
(* TrafficManager. A car is a record; x, y and speed are in position       *)
(* units. lastTurn "undefined" is the absent optional field. turns is      *)
(* history: how often lastTurn was set to left or right since the car was  *)
(* last seen on a RoadLane block.                                          *)
(***************************************************************************)
\* getLaneAt / getNextLane returning null
NoLane == [originX |-> -1, originY |-> -1, direction |-> "none", type |-> "null"]

getLaneAt(g, x, y) ==
  LET gx == Floor(x)
      gy == Floor(y)
      cell == CellAt(g, gx, gy)
      originX == IF cell.originX # -1 THEN cell.originX ELSE getRoadLaneOrigin(gx, gy).x
      originY == IF cell.originY # -1 THEN cell.originY ELSE getRoadLaneOrigin(gx, gy).y
      originCell == CellAt(g, originX, originY)
  IN IF ~InGrid(gx, gy) THEN NoLane
     ELSE IF ~isRoadTileType(cell.type) THEN NoLane
     ELSE IF originCell.laneDirection = "none" THEN NoLane
     ELSE [originX |-> originX, originY |-> originY,
           direction |-> originCell.laneDirection, type |-> originCell.type]

\* A variant that forgets the half-block offset
getLaneCenter_Origin(laneOriginX, laneOriginY) ==
  [x |-> laneOriginX * UNIT, y |-> laneOriginY * UNIT]

getLaneCenter(laneOriginX, laneOriginY) ==
  [x |-> laneOriginX * UNIT + (ROAD_LANE_SIZE * UNIT) \div 2,
   y |-> laneOriginY * UNIT + (ROAD_LANE_SIZE * UNIT) \div 2]

getNextLane(g, fromOriginX, fromOriginY, dir) ==
  LET vec == directionVectors(dir)
      nextOriginX == fromOriginX + vec.dx * ROAD_LANE_SIZE
      nextOriginY == fromOriginY + vec.dy * ROAD_LANE_SIZE
      nextCell == CellAt(g, nextOriginX, nextOriginY)
  IN IF ~InGrid(nextOriginX, nextOriginY) THEN NoLane
     ELSE IF ~isRoadTileType(nextCell.type) \/ ~nextCell.isOrigin THEN NoLane
     ELSE IF nextCell.laneDirection = "none" THEN NoLane
     ELSE [originX |-> nextOriginX, originY |-> nextOriginY,
           direction |-> nextCell.laneDirection, type |-> nextCell.type]

\* Every lane may be entered, the oncoming one too
canEnterLane_Always(nextLane, enteringFrom) == TRUE

canEnterLane(nextLane, enteringFrom) ==
  nextLane.direction # oppositeDirection(enteringFrom)

canGoDirection(g, fromLane, dir) ==
  LET nextLane == getNextLane(g, fromLane.originX, fromLane.originY, dir)
  IN IF nextLane = NoLane THEN FALSE ELSE canEnterLane(nextLane, dir)

\* uTurnMoveDir of pickNextDirection
uTurnMoveDir(d) ==
  CASE d = "right" -> "up"
    [] d = "left" -> "down"
    [] d = "down" -> "right"
    [] d = "up" -> "left"

\* A variant that offers the U-turn next to the other candidates
pickNextDirection_UTurnAmongOthers(g, car, currentLane) ==
  LET laneDir == currentLane.direction
      rightDir == rightTurnDirection(laneDir)
      leftDir == leftTurnDirection(laneDir)
      alreadyTurned == car.lastTurn = "left" \/ car.lastTurn = "right"
      straight == IF canGoDirection(g, currentLane, laneDir)
                  THEN {[dir |-> laneDir, turn |-> "straight"]} ELSE {}
      turnsOk == currentLane.type = "roadTurn" /\ ~alreadyTurned
      right == IF turnsOk /\ canGoDirection(g, currentLane, rightDir)
               THEN {[dir |-> rightDir, turn |-> "right"]} ELSE {}
      left == IF turnsOk /\ canGoDirection(g, currentLane, leftDir)
              THEN {[dir |-> leftDir, turn |-> "left"]} ELSE {}
      uTurn == IF /\ currentLane.type = "roadTurn"
                  /\ canGoDirection(g, currentLane, uTurnMoveDir(laneDir))
               THEN {[dir |-> uTurnMoveDir(laneDir), turn |-> "none"]} ELSE {}
      possibleOptions == straight \cup right \cup left \cup uTurn
  IN IF possibleOptions = {} THEN {[dir |-> laneDir, turn |-> "none"]}
     ELSE possibleOptions

\* pickNextDirection: the set of results the Math.random() draws can give
pickNextDirection(g, car, currentLane) ==
  LET laneDir == currentLane.direction
      rightDir == rightTurnDirection(laneDir)
      leftDir == leftTurnDirection(laneDir)
      alreadyTurned == car.lastTurn = "left" \/ car.lastTurn = "right"
      straight == IF canGoDirection(g, currentLane, laneDir)
                  THEN {[dir |-> laneDir, turn |-> "straight"]} ELSE {}
      turnsOk == currentLane.type = "roadTurn" /\ ~alreadyTurned
      right == IF turnsOk /\ canGoDirection(g, currentLane, rightDir)
               THEN {[dir |-> rightDir, turn |-> "right"]} ELSE {}
      left == IF turnsOk /\ canGoDirection(g, currentLane, leftDir)
              THEN {[dir |-> leftDir, turn |-> "left"]} ELSE {}
      forward == straight \cup right \cup left
      uTurn == IF /\ currentLane.type = "roadTurn" /\ forward = {}
                  /\ canGoDirection(g, currentLane, uTurnMoveDir(laneDir))
               THEN {[dir |-> uTurnMoveDir(laneDir), turn |-> "none"]} ELSE {}
      possibleOptions == forward \cup uTurn
  IN IF possibleOptions = {} THEN {[dir |-> laneDir, turn |-> "none"]}
     ELSE possibleOptions

\* A variant that never finds a car ahead
isBlockedByOtherCar_Never(cs, car) == FALSE

\* A variant with the id test inverted: only the car itself is looked at
isBlockedByOtherCar_Self(cs, car) ==
  LET vec == directionVectors(car.direction)
      aheadX == car.x + vec.dx * ((3 * UNIT) \div 2)
      aheadY == car.y + vec.dy * ((3 * UNIT) \div 2)
  IN \E k \in 1 .. Len(cs) :
       LET other == cs[k]
           dx == other.x - aheadX
           dy == other.y - aheadY
       IN /\ other.id = car.id
          /\ dx * dx + dy * dy < UNIT * UNIT
          /\ (other.x - car.x) * vec.dx + (other.y - car.y) * vec.dy > 0

isBlockedByOtherCar(cs, car) ==
  LET vec == directionVectors(car.direction)
      aheadX == car.x + vec.dx * ((3 * UNIT) \div 2)
      aheadY == car.y + vec.dy * ((3 * UNIT) \div 2)
  IN \E k \in 1 .. Len(cs) :
       LET other == cs[k]
           dx == other.x - aheadX
           dy == other.y - aheadY
       IN /\ other.id # car.id
          /\ dx * dx + dy * dy < UNIT * UNIT
          /\ (other.x - car.x) * vec.dx + (other.y - car.y) * vec.dy > 0

\* A variant that forgets the isOrigin test
LaneOrigins_AnyRoadCell(g) ==
  {c \in Cells : isRoadTileType(g[c].type) /\ g[c].laneDirection # "none"}

\* The lane origins collected by spawnCar and relocateCarToRoad
LaneOrigins(g) ==
  {c \in Cells : isRoadTileType(g[c].type) /\ g[c].isOrigin /\ g[c].laneDirection # "none"}

\* A variant that puts a new car on the road in place of the lost one
relocateCarToRoad_Respawn(g, car) ==
  IF LaneOrigins(g) = {} THEN {car}
  ELSE {[car EXCEPT !.x = getLaneCenter(o[1], o[2]).x,
                    !.y = getLaneCenter(o[1], o[2]).y,
                    !.direction = g[o].laneDirection,
                    !.id = @ + 1000,
                    !.waiting = 0,
                    !.turns = 0] : o \in LaneOrigins(g)}

\* A variant that leaves the car heading as it was
relocateCarToRoad_KeepDirection(g, car) ==
  IF LaneOrigins(g) = {} THEN {car}
  ELSE {[car EXCEPT !.x = getLaneCenter(o[1], o[2]).x,
                    !.y = getLaneCenter(o[1], o[2]).y,
                    !.waiting = 0,
                    !.turns = 0] : o \in LaneOrigins(g)}

relocateCarToRoad(g, car) ==
  IF LaneOrigins(g) = {} THEN {car}
  ELSE {[car EXCEPT !.x = getLaneCenter(o[1], o[2]).x,
                    !.y = getLaneCenter(o[1], o[2]).y,
                    !.direction = g[o].laneDirection,
                    !.waiting = 0,
                    !.turns = 0] : o \in LaneOrigins(g)}

\* car = { ...car, lastTurn: turn }, with the history count
WithLastTurn(car, turn) ==
  [car EXCEPT !.lastTurn = turn,
              !.turns = IF turn \in {"left", "right"} THEN Min(@ + 1, TurnsCap) ELSE @]

\* A variant without the check after the move
MoveCar_NoClamp(g, car, laneCenter, newDirection, nextX, nextY, newWaiting) ==
  LET moveVec == directionVectors(newDirection)
  IN [car EXCEPT !.x = nextX + moveVec.dx * car.speed,
                 !.y = nextY + moveVec.dy * car.speed,
                 !.direction = newDirection, !.waiting = newWaiting]

\* "Move in current direction" and "Verify still on road after move"
MoveCar(g, car, laneCenter, newDirection, nextX, nextY, newWaiting) ==
  LET moveVec == directionVectors(newDirection)
      toX == nextX + moveVec.dx * car.speed
      toY == nextY + moveVec.dy * car.speed
  IN IF getLaneAt(g, toX, toY) = NoLane
     THEN [car EXCEPT !.x = laneCenter.x, !.y = laneCenter.y,
                      !.direction = newDirection, !.waiting = newWaiting]
     ELSE [car EXCEPT !.x = toX, !.y = toY,
                      !.direction = newDirection, !.waiting = newWaiting]

\* A variant without the decision at the lane center: the car drives on
\* until the move would leave the road
updateSingleCar_Overrun(g, cs, car0) ==
  LET currentLane == getLaneAt(g, car0.x, car0.y)
      laneCenter == getLaneCenter(currentLane.originX, currentLane.originY)
  IN IF currentLane = NoLane THEN relocateCarToRoad(g, car0)
     ELSE IF isBlockedByOtherCar(cs, car0)
     THEN {[car0 EXCEPT !.waiting = Min(@ + 1, 120)]}
     ELSE {MoveCar(g, car0, laneCenter, car0.direction, car0.x, car0.y, 0)}

\* updateSingleCar: the set of cars the Math.random() draws can give
updateSingleCar(g, cs, car0) ==
  LET currentLane == getLaneAt(g, car0.x, car0.y)
      car == IF currentLane.type = "roadLane" THEN [car0 EXCEPT !.turns = 0] ELSE car0
      direction == car.direction
      newWaiting == IF car.waiting > 0 THEN 0 ELSE car.waiting
      laneCenter == getLaneCenter(currentLane.originX, currentLane.originY)
      threshold == car.speed * 2
      nearCenter == /\ Abs(car.x - laneCenter.x) < threshold
                    /\ Abs(car.y - laneCenter.y) < threshold
      nextLane == getNextLane(g, currentLane.originX, currentLane.originY, direction)
      straightOn == MoveCar(g, car, laneCenter, direction, car.x, car.y, newWaiting)
      turnTo(dir, turn) ==
        MoveCar(g, WithLastTurn(car, turn), laneCenter, dir, laneCenter.x, laneCenter.y,
                newWaiting)
      alreadyTurned == car.lastTurn = "left" \/ car.lastTurn = "right"
      rightDir == rightTurnDirection(direction)
      leftDir == leftTurnDirection(direction)
      turnOptions ==
        (IF canGoDirection(g, currentLane, rightDir)
         THEN {[dir |-> rightDir, turn |-> "right"]} ELSE {})
        \cup (IF canGoDirection(g, currentLane, leftDir)
              THEN {[dir |-> leftDir, turn |-> "left"]} ELSE {})
  IN IF currentLane = NoLane THEN relocateCarToRoad(g, car0)
     ELSE IF isBlockedByOtherCar(cs, car0)
     THEN {[car EXCEPT !.waiting = Min(@ + 1, 120)]}
     ELSE IF ~nearCenter THEN {straightOn}
     ELSE IF nextLane = NoLane \/ ~canEnterLane(nextLane, direction)
     THEN {IF canGoDirection(g, currentLane, pick.dir)
           THEN turnTo(pick.dir, pick.turn)
           ELSE [car EXCEPT !.x = laneCenter.x, !.y = laneCenter.y,
                            !.waiting = newWaiting] :
             pick \in pickNextDirection(g, car, currentLane)}
     ELSE IF currentLane.type = "roadTurn"
     THEN IF alreadyTurned THEN {straightOn}
          ELSE {straightOn} \cup {turnTo(o.dir, o.turn) : o \in turnOptions}
     ELSE IF car.lastTurn # "straight" /\ car.lastTurn # "none"
     THEN {MoveCar(g, WithLastTurn(car, "straight"), laneCenter, direction,
                   car.x, car.y, newWaiting)}
     ELSE {straightOn}

\* update(): the cars in array order, each seeing the cars updated before it
RECURSIVE UpdateCarsFrom(_, _, _)
UpdateCarsFrom(g, cs, i) ==
  IF i > Len(cs) THEN {cs}
  ELSE UNION {UpdateCarsFrom(g, [cs EXCEPT ![i] = c], i + 1) :
                c \in updateSingleCar(g, cs, cs[i])}

(***************************************************************************)
(* Grids the host hands to setGrid. Each is drawn on the all-grass grid    *)
(* with the lane tools (GameBoard.handleRoadLaneDrag), which write one     *)
(* 2x2 block per lane of the chosen direction and tile type.               *)
(***************************************************************************)
RECURSIVE PlaceAll(_, _)
PlaceAll(g, blocks) ==
  IF blocks = <<>> THEN g
  ELSE PlaceAll(placeLane2x2(g, blocks[1][1], blocks[1][2], blocks[1][3], blocks[1][4]),
                Tail(blocks))

Sides == {"north", "south", "east", "west"}

\* The two lanes of an approach, placed as placeRoadLot extends a lot at
\* (0, 0) to a connected edge
ApproachBlocks(side) ==
  CASE side = "west" -> << <<0, 2, "left", "roadLane">>, <<0, 4, "right", "roadLane">> >>
    [] side = "east" -> << <<6, 2, "left", "roadLane">>, <<6, 4, "right", "roadLane">> >>
    [] side = "north" -> << <<2, 0, "down", "roadLane">>, <<4, 0, "up", "roadLane">> >>
    [] side = "south" -> << <<2, 6, "down", "roadLane">>, <<4, 6, "up", "roadLane">> >>

\* The four center turn blocks, placed as placeRoadLot lays out an
\* intersection lot
CenterTurnBlocks ==
  << <<2, 2, "down", "roadTurn">>, <<4, 2, "left", "roadTurn">>,
     <<2, 4, "right", "roadTurn">>, <<4, 4, "up", "roadTurn">> >>

JunctionBlocks(connected) ==
  CenterTurnBlocks
    \o (IF "west" \in connected THEN ApproachBlocks("west") ELSE <<>>)
    \o (IF "east" \in connected THEN ApproachBlocks("east") ELSE <<>>)
    \o (IF "north" \in connected THEN ApproachBlocks("north") ELSE <<>>)
    \o (IF "south" \in connected THEN ApproachBlocks("south") ELSE <<>>)

\* One isolated lane block
SingleBlocks == << <<4, 4, "right", "roadLane">> >>

\* Turn blocks of one axis only, with road on three sides
RowTurnBlocks ==
  << <<2, 2, "left", "roadTurn">>, <<4, 2, "left", "roadTurn">>,
     <<0, 2, "left", "roadLane">>, <<6, 2, "left", "roadLane">>,
     <<2, 4, "right", "roadLane">>, <<4, 4, "right", "roadLane">> >>

\* Two signalled groups placed with the RoadTurn tool whose crosswalk bands
\* share tiles: an L-shaped group and a second group in its corner
OverlapBlocks ==
  << <<2, 2, "down", "roadTurn">>, <<8, 2, "right", "roadTurn">>,
     <<2, 8, "down", "roadTurn">>,
     <<10, 10, "down", "roadTurn">>, <<10, 12, "right", "roadTurn">>,
     <<0, 4, "right", "roadLane">>, <<8, 10, "right", "roadLane">>,
     <<12, 8, "up", "roadLane">> >>

\* A one-way road of three blocks that ends in a dead end
LaneBlocks ==
  << <<4, 4, "right", "roadLane">>, <<6, 4, "right", "roadLane">>,
     <<8, 4, "right", "roadLane">> >>

\* Two one-way lanes that face each other across a turn block, which leads
\* off to the north
MergeBlocks ==
  << <<2, 4, "right", "roadLane">>, <<4, 4, "up", "roadTurn">>,
     <<6, 4, "left", "roadLane">>, <<4, 2, "up", "roadLane">> >>

LayoutIds ==
  {<<"junction", c>> : c \in SUBSET Sides}
    \cup {<<"single", {}>>, <<"row", {}>>, <<"overlap", {}>>, <<"lane", {}>>}

\* Grids drawn for the vehicles only
MergeLayouts == {<<"merge", {}>>}

\* Grids that take the road away under the cars: the dead-end road, the
\* facing lanes and a grid with every road erased
RelocateLayouts == {<<"lane", {}>>, <<"merge", {}>>, <<"cleared", {}>>}

LayoutBlocks(l) ==
  CASE l[1] = "junction" -> JunctionBlocks(l[2])
    [] l[1] = "single" -> SingleBlocks
    [] l[1] = "row" -> RowTurnBlocks
    [] l[1] = "overlap" -> OverlapBlocks
    [] l[1] = "lane" -> LaneBlocks
    [] l[1] = "merge" -> MergeBlocks
    [] l[1] = "cleared" -> <<>>

LayoutGrid ==
  [l \in LayoutIds \cup MergeLayouts \cup RelocateLayouts |-> PlaceAll(EmptyGrid, LayoutBlocks(l))]

\* What setGrid computes for each of these grids
Detected ==
  [l \in LayoutIds \cup MergeLayouts \cup RelocateLayouts |-> detectIntersections(LayoutGrid[l])]

(***************************************************************************)
(* Operations                                                              *)
(***************************************************************************)
DeltaMs == {1000, 3000, 12000}
PedIds == 1 .. MaxPeds

Init ==
  /\ grid = EmptyGrid
  /\ intersections = <<>>
  /\ tileToIntersection = [t \in {} |-> 0]
  /\ cars = <<>>
  /\ characters = {}
  /\ ret = "void"
  /\ lastOp = "init"
  /\ elapsed = 0
  /\ exact = TRUE
  /\ stale = FALSE
  /\ seen = [citizens |-> <<>>, cars |-> <<>>]
  /\ edits = 0
  /\ walker = [inCrosswalk |-> FALSE, at |-> <<0, 0>>, step |-> 0]
  /\ sceneCharacters = <<>>

LightStateIsInitial(inters) ==
  \A k \in 1 .. Len(inters) :
    /\ inters[k].phase = "ns_green"
    /\ inters[k].timer = GREEN_DURATION_MS
    /\ \A c \in 1 .. 4 : inters[k].crosswalks[c].pedestrianIds = {}

\* A variant of setGrid that stores the grid with its turn blocks
\* rewritten as plain lanes
setGrid_Rewrites(g) ==
  [c \in Cells |-> IF g[c].type = "roadTurn" THEN [g[c] EXCEPT !.type = "roadLane"]
                   ELSE g[c]]

\* setGrid of both managers: this.grid = grid, the cells as they are
setGrid(g) == g

\* MainScene.updateGrid: TrafficManager.setGrid keeps the reference,
\* TrafficLightManager.setGrid keeps it and runs detectIntersections
UpdateGrid(l) ==
  /\ grid' = setGrid(LayoutGrid[l])
  /\ intersections' = Detected[l].intersections
  /\ tileToIntersection' = Detected[l].tileToIntersection
  /\ lastOp' = "setGrid"
  /\ ret' = "void"
  /\ elapsed' = 0
  /\ exact' = TRUE
  /\ stale' = ~LightStateIsInitial(intersections)
  /\ UNCHANGED <<sceneCharacters, walker, edits, cars, seen, characters>>

\* TrafficLightManager.update(deltaMs)
LightUpdate(deltaMs) ==
  /\ intersections' = UpdateLights(intersections, deltaMs)
  /\ lastOp' = "update"
  /\ ret' = "void"
  /\ elapsed' = IF elapsed + deltaMs > MaxElapsed THEN MaxElapsed + 1 ELSE elapsed + deltaMs
  /\ exact' = (exact /\ \A k \in 1 .. Len(intersections) : intersections[k].timer - deltaMs >= 0)
  /\ stale' = FALSE
  /\ UNCHANGED <<sceneCharacters, walker, edits, grid, tileToIntersection, cars, seen, characters>>

\* The tiles pedestrians are placed on: one tile of each aligned 2x2 block
\* that lies in a crosswalk or in an intersection, and one tile that does not
PedTiles ==
  {c \in Cells :
     /\ c[1] % ROAD_LANE_SIZE = 0 /\ c[2] % ROAD_LANE_SIZE = 0
     /\ \/ c \in DOMAIN tileToIntersection
        \/ \E k \in 1 .. Len(intersections) : \E w \in 1 .. 4 :
             InCrosswalk(intersections[k].crosswalks[w], c[1], c[2])}
    \cup {<<GRID_WIDTH - 1, GRID_HEIGHT - 1>>}

\* Tile centers as pedestrian positions
TilePos(t) == t * UNIT + UNIT \div 2

EnterCrosswalk(p, c) ==
  /\ intersections' = enterCrosswalk(intersections, p, TilePos(c[1]), TilePos(c[2]))
  /\ lastOp' = "enterCrosswalk"
  /\ ret' = "void"
  /\ stale' = FALSE
  /\ UNCHANGED <<sceneCharacters, walker, edits, grid, tileToIntersection, cars, elapsed, exact, seen, characters>>

LeaveCrosswalk(p, c) ==
  /\ intersections' = leaveCrosswalk(intersections, p, TilePos(c[1]), TilePos(c[2]))
  /\ lastOp' = "leaveCrosswalk"
  /\ ret' = "void"
  /\ stale' = FALSE
  /\ UNCHANGED <<sceneCharacters, walker, edits, grid, tileToIntersection, cars, elapsed, exact, seen, characters>>

RemoveFromAllCrosswalks(p) ==
  /\ intersections' = removeFromAllCrosswalks(intersections, p)
  /\ lastOp' = "removeFromAllCrosswalks"
  /\ ret' = "void"
  /\ stale' = FALSE
  /\ UNCHANGED <<sceneCharacters, walker, edits, grid, tileToIntersection, cars, elapsed, exact, seen, characters>>

RegisterPedestrianAtIntersection(p, c) ==
  /\ intersections' =
       registerPedestrianAtIntersection(intersections, tileToIntersection, p, c[1], c[2])
  /\ lastOp' = "registerPedestrianAtIntersection"
  /\ ret' = "void"
  /\ stale' = FALSE
  /\ UNCHANGED <<sceneCharacters, walker, edits, grid, tileToIntersection, cars, elapsed, exact, seen, characters>>

ClearAllPedestrianRegistrations ==
  /\ intersections' = clearAllPedestrianRegistrations(intersections)
  /\ lastOp' = "clearAllPedestrianRegistrations"
  /\ ret' = "void"
  /\ stale' = FALSE
  /\ UNCHANGED <<sceneCharacters, walker, edits, grid, tileToIntersection, cars, elapsed, exact, seen, characters>>

\* The speeds CAR_SPEED + (Math.random() - 0.5) * 0.01 can give, to 0.005
SpawnSpeeds == {CAR_SPEED - 1, CAR_SPEED}

\* The car types drawn from SPAWN_CAR_TYPES; the type enters no decision
SpawnCarTypes == {"jeep"}

\* TrafficManager.spawnCar with the lane, speed and type the random draws
\* pick. Without any lane origin the call returns false at once. The number
\* of cars is bounded: a call that would add a car beyond the limit is left out.
SpawnCarUpTo(limit, o, speed, carType) ==
  /\ IF o \in LaneOrigins(grid)
     THEN LET center == getLaneCenter(o[1], o[2])
              tooClose == \E k \in 1 .. Len(cars) :
                            4 * ((cars[k].x - center.x) * (cars[k].x - center.x)
                                   + (cars[k].y - center.y) * (cars[k].y - center.y))
                              < 9 * UNIT * UNIT
              newCar == [id |-> Len(cars) + 1, x |-> center.x, y |-> center.y,
                         direction |-> grid[o].laneDirection, speed |-> speed,
                         waiting |-> 0, carType |-> carType,
                         lastTurn |-> "undefined", turns |-> 0]
          IN /\ tooClose \/ Len(cars) < limit
             /\ cars' = IF tooClose THEN cars ELSE Append(cars, newCar)
             /\ ret' = IF tooClose THEN "false" ELSE "true"
     ELSE /\ o = <<0, 0>>
          /\ LaneOrigins(grid) = {}
          /\ cars' = cars
          /\ ret' = "false"
  /\ lastOp' = "spawnCar"
  /\ stale' = FALSE
  /\ UNCHANGED <<sceneCharacters, walker, edits, grid, intersections, tileToIntersection, characters, elapsed, exact, seen>>

SpawnCar(o, speed, carType) == SpawnCarUpTo(MaxCars, o, speed, carType)

\* TrafficManager.clearCars
ClearCars ==
  /\ cars' = <<>>
  /\ lastOp' = "clearCars"
  /\ ret' = "void"
  /\ stale' = (cars # <<>>)
  /\ UNCHANGED <<sceneCharacters, walker, edits, grid, intersections, tileToIntersection, elapsed, exact, seen, characters>>

\* TrafficManager.update()
TrafficUpdate ==
  /\ cars' \in UpdateCarsFrom(grid, cars, 1)
  /\ lastOp' = "trafficUpdate"
  /\ ret' = "void"
  /\ stale' = FALSE
  /\ UNCHANGED <<sceneCharacters, walker, edits, grid, intersections, tileToIntersection, elapsed, exact, seen, characters>>

\* The citizen manager's list of pedestrians, by id: spawnCharacter adds
\* one, clearCharacters removes them all
citizenSpawnCharacter(chars, p) == chars \cup {p}

citizenClearCharacters(chars) == {}

\* MainScene.spawnCharacter, with the id the new pedestrian gets
SpawnCharacter(p) ==
  /\ p \notin characters
  /\ characters' = citizenSpawnCharacter(characters, p)
  /\ lastOp' = "spawnCharacter"
  /\ ret' = "true"
  /\ stale' = FALSE
  /\ UNCHANGED <<sceneCharacters, walker, edits, grid, intersections, tileToIntersection, cars, elapsed, exact, seen>>

\* MainScene.clearCharacters: the citizen manager's clearCharacters, then
\* TrafficLightManager.clearAllPedestrianRegistrations
ClearCharacters ==
  /\ characters' = citizenClearCharacters(characters)
  /\ intersections' = clearAllPedestrianRegistrations(intersections)
  /\ lastOp' = "clearCharacters"
  /\ ret' = "void"
  /\ stale' = \/ characters # {}
               \/ \E k \in 1 .. Len(intersections) : \E w \in 1 .. 4 :
                    intersections[k].crosswalks[w].pedestrianIds # {}
  /\ UNCHANGED <<sceneCharacters, walker, edits, grid, tileToIntersection, cars, elapsed, exact, seen>>

PhasesOf(inters) == [k \in 1 .. Len(inters) |-> inters[k].phase]

\* MainScene.update(_time, delta) once the scene is ready: updateCharacters(),
\* trafficLightManager.update(delta), trafficManager.update(), in this order
Frame(delta) ==
  LET atCitizens == intersections
      afterLights == UpdateLights(intersections, delta)
  IN /\ intersections' = afterLights
     /\ cars' \in UpdateCarsFrom(grid, cars, 1)
     /\ seen' = [citizens |-> PhasesOf(atCitizens), cars |-> PhasesOf(afterLights)]
     /\ lastOp' = "frame"
     /\ ret' = "void"
     /\ elapsed' = IF elapsed + delta > MaxElapsed THEN MaxElapsed + 1 ELSE elapsed + delta
     /\ exact' = (exact /\ \A k \in 1 .. Len(intersections) :
                             intersections[k].timer - delta >= 0)
     /\ stale' = FALSE
     /\ UNCHANGED <<sceneCharacters, walker, edits, grid, tileToIntersection, characters>>

\* CitizenManager.update for one pedestrian with id pedestrianId, as the
\* crosswalk contract describes it: outside a crosswalk it may start onto
\* any crosswalk that canCrossAtCrosswalk opens, registering there, or walk
\* elsewhere; once inCrosswalk it walks on, whatever the lights show, and
\* leaves after CrossingFrames frames, unregistering. The result is the set
\* of possible outcomes.
citizenUpdate(inters, w, pedestrianId) ==
  IF w.inCrosswalk
  THEN IF w.step + 1 >= CrossingFrames
       THEN {[inters |-> [inters EXCEPT ![w.at[1]].crosswalks[w.at[2]].pedestrianIds =
                            @ \ {pedestrianId}],
              walker |-> [inCrosswalk |-> FALSE, at |-> <<0, 0>>, step |-> 0]]}
       ELSE {[inters |-> inters, walker |-> [w EXCEPT !.step = @ + 1]]}
  ELSE {[inters |-> inters, walker |-> w]}
         \cup {[inters |-> [inters EXCEPT ![k].crosswalks[c].pedestrianIds =
                              @ \cup {pedestrianId}],
                 walker |-> [inCrosswalk |-> TRUE, at |-> <<k, c>>, step |-> 0]] :
                 <<k, c>> \in {kc \in (1 .. Len(inters)) \X (1 .. 4) :
                                 canCrossAtCrosswalk(inters[kc[1]],
                                                     inters[kc[1]].crosswalks[kc[2]])}}

\* MainScene.update(_time, delta) with one pedestrian in the citizen manager:
\* the pedestrian moves, then the lights, then the cars
WalkFrame(delta) ==
  \E r \in citizenUpdate(intersections, walker, 1) :
    /\ walker' = r.walker
    /\ intersections' = UpdateLights(r.inters, delta)
    /\ cars' \in UpdateCarsFrom(grid, cars, 1)
    /\ seen' = [citizens |-> PhasesOf(intersections),
                cars |-> PhasesOf(UpdateLights(r.inters, delta))]
    /\ lastOp' = "frame"
    /\ ret' = "void"
    /\ elapsed' = IF elapsed + delta > MaxElapsed THEN MaxElapsed + 1 ELSE elapsed + delta
    /\ exact' = (exact /\ \A k \in 1 .. Len(intersections) :
                            intersections[k].timer - delta >= 0)
    /\ stale' = FALSE
    /\ UNCHANGED <<sceneCharacters, edits, grid, tileToIntersection, characters>>

\* The traffic lights alone: grid changes and the phase timers
Next ==
  \/ \E l \in LayoutIds : UpdateGrid(l)
  \/ \E d \in DeltaMs : LightUpdate(d)

Spec == Init /\ [][Next]_vars

\* The crosswalk registry: grid changes, whole-phase updates and the
\* pedestrian registration calls
CrosswalkLayouts ==
  {<<"junction", Sides>>, <<"junction", Sides \ {"north"}>>, <<"single", {}>>, <<"overlap", {}>>}

NextCrosswalk ==
  \/ \E l \in CrosswalkLayouts : UpdateGrid(l)
  \/ LightUpdate(GREEN_DURATION_MS)
  \/ \E p \in PedIds : \E c \in PedTiles : EnterCrosswalk(p, c)
  \/ \E p \in PedIds : \E c \in PedTiles : LeaveCrosswalk(p, c)
  \/ \E p \in PedIds : RemoveFromAllCrosswalks(p)
  \/ \E p \in PedIds : \E c \in PedTiles :
       \E t \in BlockCells(c[1], c[2]) \cap Cells : RegisterPedestrianAtIntersection(p, t)
  \/ ClearAllPedestrianRegistrations

SpecCrosswalk == Init /\ [][NextCrosswalk]_vars

\* The registry with several pedestrians: the first one walks through
\* crosswalks and intersections, the others are registered at intersections
RegistryPeds == 1 .. MaxPeds + 1
RegistryLayouts == {<<"junction", Sides>>, <<"overlap", {}>>}

NextRegistry ==
  \/ \E l \in RegistryLayouts : UpdateGrid(l)
  \/ \E c \in PedTiles : EnterCrosswalk(1, c)
  \/ \E c \in PedTiles : LeaveCrosswalk(1, c)
  \/ \E p \in RegistryPeds : \E c \in PedTiles : RegisterPedestrianAtIntersection(p, c)
  \/ \E p \in RegistryPeds : RemoveFromAllCrosswalks(p)

SpecRegistry == Init /\ [][NextRegistry]_vars

\* The vehicles: cars are spawned and driven on a grid that is replaced
\* only while no car is on it
TrafficLayouts ==
  {<<"junction", Sides>>, <<"junction", Sides \ {"north"}>>, <<"junction", {"west"}>>, <<"row", {}>>,
   <<"single", {}>>}

NextTraffic ==
  \/ cars = <<>> /\ \E l \in TrafficLayouts : UpdateGrid(l)
  \/ \E o \in Cells : \E speed \in SpawnSpeeds : \E carType \in SpawnCarTypes :
       SpawnCar(o, speed, carType)
  \/ TrafficUpdate
  \/ ClearCars

SpecTraffic == Init /\ [][NextTraffic]_vars

\* The frames of the scene on the four-way junction
FrameDeltas == {GREEN_DURATION_MS \div 2}

NextScene ==
  \/ cars = <<>> /\ UpdateGrid(<<"junction", Sides>>)
  \/ \E o \in Cells : SpawnCar(o, CAR_SPEED, "jeep")
  \/ \E delta \in FrameDeltas : Frame(delta)
  \/ ClearCars

SpecScene == Init /\ [][NextScene]_vars

\* A pedestrian on the four-way junction: frames of 1 and 3 seconds, the
\* grid handed over again only while the pedestrian is off the crosswalks
WalkDeltas == {1000, 3000}

NextWalk ==
  \/ ~walker.inCrosswalk /\ UpdateGrid(<<"junction", Sides>>)
  \/ \E delta \in WalkDeltas : WalkFrame(delta)

SpecWalk == Init /\ [][NextWalk]_vars

\* Queues: up to MaxQueue cars on the dead-end road and on the single block,
\* with the grid replaced under them
QueueLayouts == {<<"lane", {}>>, <<"single", {}>>}

NextQueue ==
  \/ \E l \in QueueLayouts : UpdateGrid(l)
  \/ \E o \in Cells : SpawnCarUpTo(MaxQueue, o, CAR_SPEED, "jeep")
  \/ TrafficUpdate
  \/ ClearCars

SpecQueue == Init /\ [][NextQueue]_vars

\* Merging: up to MaxQueue cars on the two facing lanes and their turn block
NextMerge ==
  \/ \E l \in MergeLayouts : UpdateGrid(l)
  \/ \E o \in Cells : SpawnCarUpTo(MaxQueue, o, CAR_SPEED, "jeep")
  \/ TrafficUpdate
  \/ ClearCars

SpecMerge == Init /\ [][NextMerge]_vars

\* Relocation: one car, with the grid replaced or erased under it
NextRelocate ==
  \/ \E l \in RelocateLayouts : UpdateGrid(l)
  \/ \E o \in Cells : SpawnCar(o, CAR_SPEED, "jeep")
  \/ TrafficUpdate
  \/ ClearCars

SpecRelocate == Init /\ [][NextRelocate]_vars

\* Clearing: pedestrians and cars are spawned on the four-way junction,
\* pedestrians are registered at its crosswalks, and both are cleared
NextClear ==
  \/ UpdateGrid(<<"junction", Sides>>)
  \/ \E o \in Cells : SpawnCar(o, CAR_SPEED, "jeep")
  \/ \E p \in PedIds : SpawnCharacter(p)
  \/ \E p \in characters : \E c \in PedTiles : EnterCrosswalk(p, c)
  \/ \E p \in characters : \E c \in PedTiles : RegisterPedestrianAtIntersection(p, c)
  \/ ClearCars
  \/ ClearCharacters

SpecClear == Init /\ [][NextClear]_vars

(***************************************************************************)
(* roadUtils.ts: placement check and topology queries                      *)
(***************************************************************************)
LOT_SIZE == 8

\* A cell written as { type, x, y }: its lane fields are undefined
BareCell(type) ==
  [type |-> type, isOrigin |-> FALSE, originX |-> -1, originY |-> -1,
   laneDirection |-> "none"]

\* A variant of canPlaceRoadLane without the bounds test: cells outside
\* the grid are skipped like missing cells
canPlaceRoadLane_NoBounds(g, laneX, laneY, allowOverlap) ==
  IF \A c \in BlockCells(laneX, laneY) :
       LET cell == CellAt(g, c[1], c[2]) IN
         \/ cell.type = "undefined"
         \/ cell.type \in {"grass", "asphalt", "sidewalk"}
         \/ (allowOverlap /\ isRoadTileType(cell.type))
  THEN [valid |-> TRUE, reason |-> "none"]
  ELSE [valid |-> FALSE, reason |-> "blocked"]

\* roadUtils.canPlaceRoadLane; reason "none" stands for no reason field
canPlaceRoadLane(g, laneX, laneY, allowOverlap) ==
  IF \/ laneX < 0 \/ laneY < 0
     \/ laneX + ROAD_LANE_SIZE > GRID_WIDTH
     \/ laneY + ROAD_LANE_SIZE > GRID_HEIGHT
  THEN [valid |-> FALSE, reason |-> "out_of_bounds"]
  ELSE IF \A c \in BlockCells(laneX, laneY) :
            LET cell == CellAt(g, c[1], c[2]) IN
              \/ cell.type = "undefined"
              \/ cell.type \in {"grass", "asphalt", "sidewalk"}
              \/ (allowOverlap /\ isRoadTileType(cell.type))
       THEN [valid |-> TRUE, reason |-> "none"]
       ELSE [valid |-> FALSE, reason |-> "blocked"]

\* roadUtils.hasRoadLane: a lane block has its origin exactly at (laneX, laneY)
hasRoadLane(g, laneX, laneY) ==
  IF laneX < 0 \/ laneY < 0 \/ laneX >= GRID_WIDTH \/ laneY >= GRID_HEIGHT
  THEN FALSE
  ELSE LET cell == CellAt(g, laneX, laneY) IN
         /\ isRoadTileType(cell.type)
         /\ cell.isOrigin
         /\ cell.originX = laneX
         /\ cell.originY = laneY

\* roadUtils.getLaneDirection; "null" is the code's null
getLaneDirection(g, laneX, laneY) ==
  LET cell == CellAt(g, laneX, laneY) IN
    IF cell.type = "undefined" \/ ~isRoadTileType(cell.type) \/ ~cell.isOrigin
    THEN "null"
    ELSE IF cell.laneDirection = "none" THEN "null" ELSE cell.laneDirection

isPerpendicular(dir1, dir2) ==
  \/ dir1 \in {"left", "right"} /\ dir2 \in {"up", "down"}
  \/ dir1 \in {"up", "down"} /\ dir2 \in {"left", "right"}

\* roadUtils.getAdjacentLanes: the lanes two tiles away in the four
\* cardinal directions
getAdjacentLanes(g, laneX, laneY) ==
  {[direction |-> d,
    x |-> laneX + directionVectors(d).dx * ROAD_LANE_SIZE,
    y |-> laneY + directionVectors(d).dy * ROAD_LANE_SIZE,
    laneDir |-> getLaneDirection(g, laneX + directionVectors(d).dx * ROAD_LANE_SIZE,
                                 laneY + directionVectors(d).dy * ROAD_LANE_SIZE)] :
     d \in {e \in Direction :
              /\ hasRoadLane(g, laneX + directionVectors(e).dx * ROAD_LANE_SIZE,
                             laneY + directionVectors(e).dy * ROAD_LANE_SIZE)
              /\ getLaneDirection(g, laneX + directionVectors(e).dx * ROAD_LANE_SIZE,
                                  laneY + directionVectors(e).dy * ROAD_LANE_SIZE) # "null"}}

\* roadUtils.isAtIntersection: some adjacent lane is perpendicular
isAtIntersection(g, laneX, laneY) ==
  LET cell == CellAt(g, laneX, laneY) IN
    IF cell.type = "undefined" \/ ~isRoadTileType(cell.type) \/ ~cell.isOrigin
    THEN FALSE
    ELSE IF cell.laneDirection = "none" THEN FALSE
    ELSE \E adj \in getAdjacentLanes(g, laneX, laneY) :
           isPerpendicular(cell.laneDirection, adj.laneDir)

\* A variant that looks ahead only
isDeadEnd_AheadOnly(g, laneX, laneY) ==
  LET cell == CellAt(g, laneX, laneY) IN
    IF cell.type = "undefined" \/ ~isRoadTileType(cell.type) \/ ~cell.isOrigin
    THEN FALSE
    ELSE IF cell.laneDirection = "none" THEN FALSE
    ELSE LET vec == directionVectors(cell.laneDirection) IN
           ~hasRoadLane(g, laneX + vec.dx * ROAD_LANE_SIZE,
                        laneY + vec.dy * ROAD_LANE_SIZE)

\* roadUtils.isDeadEnd: no lane ahead and no perpendicular neighbour
isDeadEnd(g, laneX, laneY) ==
  LET cell == CellAt(g, laneX, laneY) IN
    IF cell.type = "undefined" \/ ~isRoadTileType(cell.type) \/ ~cell.isOrigin
    THEN FALSE
    ELSE IF cell.laneDirection = "none" THEN FALSE
    ELSE LET vec == directionVectors(cell.laneDirection) IN
           /\ ~hasRoadLane(g, laneX + vec.dx * ROAD_LANE_SIZE,
                           laneY + vec.dy * ROAD_LANE_SIZE)
           /\ ~\E adj \in getAdjacentLanes(g, laneX, laneY) :
                 isPerpendicular(cell.laneDirection, adj.laneDir)

\* The conversion both update functions apply: type = RoadTurn on the
\* existing cells of the 2x2 blocks at the given origins
ConvertToTurn(g, origins) ==
  LET cells == UNION {BlockCells(o[1], o[2]) : o \in origins} IN
    [c \in Cells |-> IF c \in cells THEN [g[c] EXCEPT !.type = "roadTurn"] ELSE g[c]]

\* roadUtils.updateIntersections: the changed lanes and their neighbours
\* that sit at an intersection become RoadTurn
updateIntersections(g, changedLanes) ==
  LET origins == {o \in {<<getRoadLaneOrigin(t[1], t[2]).x, getRoadLaneOrigin(t[1], t[2]).y>> :
                           t \in changedLanes} : hasRoadLane(g, o[1], o[2])}
      checked == origins \cup
                 UNION {{<<adj.x, adj.y>> : adj \in getAdjacentLanes(g, o[1], o[2])} :
                          o \in origins}
  IN ConvertToTurn(g, {o \in checked :
                         /\ isAtIntersection(g, o[1], o[2])
                         /\ CellAt(g, o[1], o[2]).type # "roadTurn"})

\* roadUtils.updateDeadEnds: the changed lanes that are dead ends become
\* RoadTurn
updateDeadEnds(g, changedLanes) ==
  LET origins == {<<getRoadLaneOrigin(t[1], t[2]).x, getRoadLaneOrigin(t[1], t[2]).y>> :
                    t \in changedLanes}
  IN ConvertToTurn(g, {o \in origins :
                         /\ hasRoadLane(g, o[1], o[2])
                         /\ isDeadEnd(g, o[1], o[2])
                         /\ CellAt(g, o[1], o[2]).type # "roadTurn"})

(***************************************************************************)
(* roadUtils.ts: lot-based road placement                                  *)
(***************************************************************************)
\* types.getLotOrigin
getLotOrigin(x, y) ==
  [x |-> (x \div LOT_SIZE) * LOT_SIZE, y |-> (y \div LOT_SIZE) * LOT_SIZE]

LotCells(lotX, lotY) ==
  {c \in Cells : /\ c[1] >= lotX /\ c[1] < lotX + LOT_SIZE
                 /\ c[2] >= lotY /\ c[2] < lotY + LOT_SIZE}

hasRoadInLot(g, lotX, lotY) ==
  \E c \in LotCells(lotX, lotY) : g[c].type \in {"roadLane", "roadTurn"}

getAdjacentRoadLots(g, lotX, lotY) ==
  [north |-> lotY >= LOT_SIZE /\ hasRoadInLot(g, lotX, lotY - LOT_SIZE),
   south |-> lotY + LOT_SIZE < GRID_HEIGHT /\ hasRoadInLot(g, lotX, lotY + LOT_SIZE),
   east |-> lotX + LOT_SIZE < GRID_WIDTH /\ hasRoadInLot(g, lotX + LOT_SIZE, lotY),
   west |-> lotX >= LOT_SIZE /\ hasRoadInLot(g, lotX - LOT_SIZE, lotY)]

\* The lane blocks placeRoadLot places, in its order: the four center
\* blocks of the configuration, then the extensions to connected edges
LotBlocks(lotX, lotY, adj) ==
  LET connectionCount == Cardinality({s \in Sides : adj[s]})
      hasHorizontal == adj.east \/ adj.west
      hasVertical == adj.north \/ adj.south
      B(dx, dy, d, t) == <<lotX + dx, lotY + dy, d, t>>
      center ==
        IF connectionCount >= 3
        THEN << B(2, 2, "down", "roadTurn"), B(4, 2, "left", "roadTurn"),
                B(2, 4, "right", "roadTurn"), B(4, 4, "up", "roadTurn") >>
        ELSE IF connectionCount = 2 /\ hasHorizontal /\ hasVertical
        THEN IF adj.north /\ adj.east
             THEN << B(2, 2, "down", "roadLane"), B(4, 2, "right", "roadTurn"),
                     B(2, 4, "right", "roadTurn"), B(4, 4, "up", "roadLane") >>
             ELSE IF adj.north /\ adj.west
             THEN << B(2, 2, "left", "roadTurn"), B(4, 2, "up", "roadLane"),
                     B(2, 4, "down", "roadLane"), B(4, 4, "left", "roadTurn") >>
             ELSE IF adj.south /\ adj.east
             THEN << B(2, 2, "right", "roadTurn"), B(4, 2, "up", "roadLane"),
                     B(2, 4, "down", "roadLane"), B(4, 4, "right", "roadTurn") >>
             ELSE IF adj.south /\ adj.west
             THEN << B(2, 2, "down", "roadLane"), B(4, 2, "left", "roadTurn"),
                     B(2, 4, "left", "roadTurn"), B(4, 4, "up", "roadLane") >>
             ELSE <<>>
        ELSE IF hasVertical /\ ~hasHorizontal
        THEN << B(2, 2, "down", "roadLane"), B(4, 2, "up", "roadLane"),
                B(2, 4, "down", "roadLane"), B(4, 4, "up", "roadLane") >>
        ELSE << B(2, 2, "left", "roadLane"), B(4, 2, "left", "roadLane"),
                B(2, 4, "right", "roadLane"), B(4, 4, "right", "roadLane") >>
  IN center
       \o (IF adj.west THEN << B(0, 2, "left", "roadLane"), B(0, 4, "right", "roadLane") >>
           ELSE <<>>)
       \o (IF adj.east THEN << B(6, 2, "left", "roadLane"), B(6, 4, "right", "roadLane") >>
           ELSE <<>>)
       \o (IF adj.north THEN << B(2, 0, "down", "roadLane"), B(4, 0, "up", "roadLane") >>
           ELSE <<>>)
       \o (IF adj.south THEN << B(2, 6, "down", "roadLane"), B(4, 6, "up", "roadLane") >>
           ELSE <<>>)

\* The cells placeRoadLot hands to placeSidewalk: the unconnected edges and
\* the four corners, as offsets within the lot
LotSidewalkOffsets(adj) ==
  (IF adj.west THEN {} ELSE (0 .. 1) \X (2 .. 5))
    \cup (IF adj.east THEN {} ELSE (6 .. 7) \X (2 .. 5))
    \cup (IF adj.north THEN {} ELSE (2 .. 5) \X (0 .. 1))
    \cup (IF adj.south THEN {} ELSE (2 .. 5) \X (6 .. 7))
    \cup ({0, 1, 6, 7} \X {0, 1, 6, 7})

\* roadUtils.placeRoadLot with the neighbours read from the grid: clear the
\* lot to grass, place the lane blocks, then sidewalks where no road is
placeRoadLot(g, lotX, lotY) ==
  LET adj == getAdjacentRoadLots(g, lotX, lotY)
      lot == LotCells(lotX, lotY)
      cleared == [c \in Cells |-> IF c \in lot THEN BareCell("grass") ELSE g[c]]
      laned == PlaceAll(cleared, LotBlocks(lotX, lotY, adj))
      walks == {<<lotX + o[1], lotY + o[2]>> : o \in LotSidewalkOffsets(adj)}
  IN [c \in Cells |->
        IF c \in walks /\ laned[c].type \notin {"roadLane", "roadTurn"}
        THEN BareCell("sidewalk") ELSE laned[c]]

(***************************************************************************)
(* GameBoard.tsx: the road tools and the eraser, on the board's grid       *)
(***************************************************************************)
\* The dragTiles the scene builds for a lane tool dragged along a line
\* (MainScene pointer move): lanes snapped to the 2x2 grid from (x, y) to
\* the block at `last` on the same row or column, with the parallel lane of
\* a two-way tool
RECURSIVE DragLanes(_, _, _, _, _)
DragLanes(x, y, last, orientation, isTwoWay) ==
  IF orientation = "horizontal"
  THEN IF x > last THEN <<>>
       ELSE << <<x, y>> >> \o (IF isTwoWay THEN << <<x, y + ROAD_LANE_SIZE>> >> ELSE <<>>)
              \o DragLanes(x + ROAD_LANE_SIZE, y, last, orientation, isTwoWay)
  ELSE IF y > last THEN <<>>
       ELSE << <<x, y>> >> \o (IF isTwoWay THEN << <<x + ROAD_LANE_SIZE, y>> >> ELSE <<>>)
              \o DragLanes(x, y + ROAD_LANE_SIZE, last, orientation, isTwoWay)

\* The in-place assignment of the lane fields to the four cells of a lane
LaneWritten(g, laneX, laneY, direction, tileType) ==
  LET block == BlockCells(laneX, laneY) IN
  [c \in Cells |->
     IF c \in block
     THEN [type |-> tileType, isOrigin |-> (c = <<laneX, laneY>>),
           originX |-> laneX, originY |-> laneY, laneDirection |-> direction]
     ELSE g[c]]

\* GameBoard.handleRoadLaneDrag: every lane that can be placed without
\* overlap is written with the tool's direction and tile type
RECURSIVE handleRoadLaneDrag(_, _, _, _)
handleRoadLaneDrag(g, lanes, direction, tileType) ==
  IF lanes = <<>> THEN g
  ELSE handleRoadLaneDrag(
         IF canPlaceRoadLane(g, lanes[1][1], lanes[1][2], FALSE).valid
         THEN LaneWritten(g, lanes[1][1], lanes[1][2], direction, tileType)
         ELSE g,
         Tail(lanes), direction, tileType)

\* First pass of handleTwoWayRoadDrag: st.g is the grid, st.placed the lanes
\* placed so far, lanes the whole drag and k the lane being placed
RECURSIVE TwoWayLanes(_, _, _, _)
TwoWayLanes(st, lanes, k, orientation) ==
  IF k > Len(lanes) THEN st
  ELSE
    LET laneX == lanes[k][1]
        laneY == lanes[k][2]
        all == {lanes[j] : j \in 1 .. Len(lanes)}
        direction ==
          IF orientation = "horizontal"
          THEN IF <<laneX, laneY + ROAD_LANE_SIZE>> \in all THEN "left" ELSE "right"
          ELSE IF <<laneX + ROAD_LANE_SIZE, laneY>> \in all THEN "down" ELSE "up"
        existingCell == CellAt(st.g, laneX, laneY)
        existingDir == existingCell.laneDirection
        isIntersection ==
          /\ existingCell.type # "undefined"
          /\ isRoadTileType(existingCell.type)
          /\ existingDir # "none"
          /\ isPerpendicular(existingDir, direction)
        existingIsHorizontal == existingDir \in {"right", "left"}
        isTopLane == IF existingIsHorizontal THEN existingDir = "left"
                     ELSE direction = "left"
        isLeftLane == IF existingIsHorizontal THEN direction = "down"
                      ELSE existingDir = "down"
        intersectionDir ==
          IF isTopLane /\ isLeftLane THEN "down"
          ELSE IF isTopLane /\ ~isLeftLane THEN "left"
          ELSE IF ~isTopLane /\ isLeftLane THEN "right"
          ELSE "up"
    IN IF ~canPlaceRoadLane(st.g, laneX, laneY, TRUE).valid
       THEN TwoWayLanes(st, lanes, k + 1, orientation)
       ELSE TwoWayLanes(
              [g |-> IF isIntersection
                     THEN LaneWritten(st.g, laneX, laneY, intersectionDir, "roadTurn")
                     ELSE LaneWritten(st.g, laneX, laneY, direction, "roadLane"),
               placed |-> st.placed \cup {<<laneX, laneY>>}],
              lanes, k + 1, orientation)

\* Second pass of handleTwoWayRoadDrag: the grass cells of the 2x2 blocks
\* on the outer sides of the placed lanes
TwoWaySidewalkCells(g, placed, orientation) ==
  IF orientation = "horizontal"
  THEN UNION {LET ys == {l[2] : l \in {m \in placed : m[1] = x}}
                  minY == CHOOSE v \in ys : \A w \in ys : v <= w
                  maxY == CHOOSE v \in ys : \A w \in ys : v >= w
              IN {c \in BlockCells(x, minY - ROAD_LANE_SIZE)
                          \cup BlockCells(x, maxY + ROAD_LANE_SIZE) :
                    CellAt(g, c[1], c[2]).type = "grass"} :
              x \in {l[1] : l \in placed}}
  ELSE UNION {LET xs == {l[1] : l \in {m \in placed : m[2] = y}}
                  minX == CHOOSE v \in xs : \A w \in xs : v <= w
                  maxX == CHOOSE v \in xs : \A w \in xs : v >= w
              IN {c \in BlockCells(minX - ROAD_LANE_SIZE, y)
                          \cup BlockCells(maxX + ROAD_LANE_SIZE, y) :
                    CellAt(g, c[1], c[2]).type = "grass"} :
              y \in {l[2] : l \in placed}}

\* GameBoard.handleTwoWayRoadDrag: lanes (overlap allowed), sidewalks,
\* then updateDeadEnds on the tiles it wrote
handleTwoWayRoadDrag(g, lanes, orientation, includeSidewalks) ==
  LET st == TwoWayLanes([g |-> g, placed |-> {}], lanes, 1, orientation)
      walks == IF includeSidewalks THEN TwoWaySidewalkCells(st.g, st.placed, orientation)
               ELSE {}
      walked == [c \in Cells |-> IF c \in walks THEN [st.g[c] EXCEPT !.type = "sidewalk"]
                                 ELSE st.g[c]]
      dirtyTiles == UNION {BlockCells(l[1], l[2]) : l \in st.placed} \cup walks
  IN IF Len(lanes) = 0 \/ dirtyTiles = {} THEN walked
     ELSE updateDeadEnds(walked, dirtyTiles)

\* MainScene.getConnectedRoadTiles: the road and sidewalk tiles of the
\* 8x8 lot of (startX, startY), or the tile itself when it is neither
getConnectedRoadTiles(g, startX, startY) ==
  IF CellAt(g, startX, startY).type \notin {"roadLane", "roadTurn", "sidewalk"}
  THEN {<<startX, startY>>}
  ELSE {c \in LotCells(getLotOrigin(startX, startY).x, getLotOrigin(startX, startY).y) :
          g[c].type \in {"roadLane", "roadTurn", "sidewalk"}}

\* A variant of performDeletion that erases the dragged tiles only
performDeletion_TileOnly(g, tiles) ==
  [c \in Cells |-> IF c \in tiles /\ g[c].type # "grass" THEN GrassCell ELSE g[c]]

\* GameBoard.performDeletion on road infrastructure: each erased road or
\* sidewalk tile takes the road chunk of its lot with it
performDeletion(g, tiles) ==
  LET hit == {t \in tiles : InGrid(t[1], t[2])
                            /\ g[t].type \in {"roadLane", "roadTurn", "sidewalk"}}
      chunk == UNION {getConnectedRoadTiles(g, t[1], t[2]) : t \in hit}
  IN [c \in Cells |-> IF c \in chunk /\ g[c].type # "grass" THEN GrassCell ELSE g[c]]

\* The drags of the editing specification: the row or column of the drag,
\* the first and last lane of the line, and the settings of the lane tool
EditTracks == {4}
EditLines == {<<0, 12>>, <<6, 6>>}
TwoWayLines == {<<0, 12>>, <<4, 8>>}
LaneTools == {<<"right", "roadLane">>, <<"up", "roadTurn">>}
EditLots == {<<0, 0>>, <<8, 0>>, <<0, 8>>, <<8, 8>>}
EraseTiles == {<<5, 5>>, <<9, 4>>}

\* The lanes of a drag along track t from line[1] to line[2]
LanesOf(t, line, orientation, isTwoWay) ==
  IF orientation = "horizontal"
  THEN DragLanes(line[1], t, line[2], orientation, isTwoWay)
  ELSE DragLanes(t, line[1], line[2], orientation, isTwoWay)

\* An edit of the board's grid; the managers are handed the grid later
EditGrid(g, op) ==
  /\ edits < MaxEdits
  /\ edits' = edits + 1
  /\ grid' = g
  /\ lastOp' = op
  /\ ret' = "void"
  /\ UNCHANGED <<sceneCharacters, intersections, tileToIntersection, cars, characters, elapsed, exact,
                 stale, seen, walker>>

\* pointer up with the RoadLane or RoadTurn tool
HandleRoadLaneDrag(lanes, direction, tileType) ==
  EditGrid(handleRoadLaneDrag(grid, lanes, direction, tileType), "handleRoadLaneDrag")

\* pointer up with the TwoWayRoad or SidewalklessRoad tool
HandleTwoWayRoadDrag(lanes, orientation, includeSidewalks) ==
  EditGrid(handleTwoWayRoadDrag(grid, lanes, orientation, includeSidewalks),
           "handleTwoWayRoadDrag")

PlaceRoadLot(lotX, lotY) ==
  EditGrid(placeRoadLot(grid, lotX, lotY), "placeRoadLot")

UpdateIntersections(changedLanes) ==
  EditGrid(updateIntersections(grid, changedLanes), "updateIntersections")

UpdateDeadEnds(changedLanes) ==
  EditGrid(updateDeadEnds(grid, changedLanes), "updateDeadEnds")

\* pointer up with the eraser
PerformDeletion(tiles) ==
  EditGrid(performDeletion(grid, tiles), "performDeletion")

\* Road editing: the lane tools, lot placement, the two update passes and
\* the eraser, in any order on the board's grid
NextEdit ==
  \/ \E t \in EditTracks : \E line \in EditLines :
       \E o \in {"horizontal", "vertical"} : \E tool \in LaneTools :
         HandleRoadLaneDrag(LanesOf(t, line, o, FALSE), tool[1], tool[2])
  \/ \E t \in EditTracks : \E line \in TwoWayLines :
       \E o \in {"horizontal", "vertical"} : \E s \in BOOLEAN :
         HandleTwoWayRoadDrag(LanesOf(t, line, o, TRUE), o, s)
  \/ \E lot \in EditLots : PlaceRoadLot(lot[1], lot[2])
  \/ UpdateIntersections(Cells)
  \/ UpdateDeadEnds(Cells)
  \/ \E t \in EraseTiles : PerformDeletion({t})

SpecEdit == Init /\ [][NextEdit]_vars

(***************************************************************************)
(* The scene that moves the pedestrians itself (MainScene.updateCharacters *)
(* and what it calls). A character is a record; x, y and speed are in      *)
(* position units.                                                         *)
(***************************************************************************)
CHARACTER_SPEED == 3

isWalkable(g, x, y) ==
  LET gx == Floor(x)
      gy == Floor(y)
  IN IF gx < 0 \/ gx >= GRID_WIDTH \/ gy < 0 \/ gy >= GRID_HEIGHT THEN FALSE
     ELSE g[<<gx, gy>>].type = "sidewalk" \/ g[<<gx, gy>>].type = "tile"

getValidDirections(g, tileX, tileY) ==
  {dir \in Direction :
     isWalkable(g, (tileX + directionVectors(dir).dx) * UNIT,
                (tileY + directionVectors(dir).dy) * UNIT)}

\* A variant that keeps the way back among the choices
pickNewDirection_MayReverse(g, tileX, tileY, currentDir) ==
  LET validDirs == getValidDirections(g, tileX, tileY)
  IN IF validDirs = {} THEN {"null"} ELSE validDirs

\* pickNewDirection: the set of results the Math.random() draws can give,
\* "null" for null
pickNewDirection(g, tileX, tileY, currentDir) ==
  LET validDirs == getValidDirections(g, tileX, tileY)
      preferredDirs == validDirs \ {oppositeDirection(currentDir)}
      straight == IF currentDir \in preferredDirs THEN {currentDir} ELSE {}
      choices == IF preferredDirs # {} THEN preferredDirs ELSE validDirs
  IN IF validDirs = {} THEN {"null"} ELSE straight \cup choices

\* The tiles spawnCharacter and updateSingleCharacter collect
WalkableTiles(g) == {c \in Cells : g[c].type = "sidewalk" \/ g[c].type = "tile"}

\* A variant of updateSingleCharacter that completes every move
updateSingleCharacter_NoClamp(g, char) ==
  LET tileX == Floor(char.x)
      tileY == Floor(char.y)
      vec == directionVectors(char.direction)
      centerX == tileX * UNIT + UNIT \div 2
      centerY == tileY * UNIT + UNIT \div 2
      threshold == char.speed * 3
      nearCenter == /\ Abs(char.x - centerX) < threshold
                    /\ Abs(char.y - centerY) < threshold
      asIs == [dir |-> char.direction, x |-> char.x, y |-> char.y]
      fromCenter(newDir) ==
        [dir |-> IF newDir = "null" THEN char.direction ELSE newDir,
         x |-> centerX, y |-> centerY]
      picks == pickNewDirection(g, tileX, tileY, char.direction)
      decisions ==
        IF ~nearCenter THEN {asIs}
        ELSE IF ~isWalkable(g, (tileX + vec.dx) * UNIT, (tileY + vec.dy) * UNIT)
        THEN {fromCenter(newDir) : newDir \in picks}
        ELSE {asIs} \cup (IF Cardinality(getValidDirections(g, tileX, tileY)) > 2
                          THEN {fromCenter(newDir) : newDir \in picks \ {"null"}}
                          ELSE {})
      moved(d) ==
        LET nextX == d.x + directionVectors(d.dir).dx * char.speed
            nextY == d.y + directionVectors(d.dir).dy * char.speed
        IN [char EXCEPT !.x = nextX, !.y = nextY, !.direction = d.dir]
  IN IF ~isWalkable(g, tileX * UNIT, tileY * UNIT)
     THEN IF WalkableTiles(g) # {}
          THEN {[char EXCEPT !.x = newTile[1] * UNIT + UNIT \div 2,
                             !.y = newTile[2] * UNIT + UNIT \div 2,
                             !.direction = dir] :
                  newTile \in WalkableTiles(g), dir \in Direction}
          ELSE {char}
     ELSE {moved(d) : d \in decisions}

\* updateSingleCharacter: the set of characters the Math.random() draws
\* can give
updateSingleCharacter(g, char) ==
  LET tileX == Floor(char.x)
      tileY == Floor(char.y)
      vec == directionVectors(char.direction)
      centerX == tileX * UNIT + UNIT \div 2
      centerY == tileY * UNIT + UNIT \div 2
      threshold == char.speed * 3
      nearCenter == /\ Abs(char.x - centerX) < threshold
                    /\ Abs(char.y - centerY) < threshold
      asIs == [dir |-> char.direction, x |-> char.x, y |-> char.y]
      fromCenter(newDir) ==
        [dir |-> IF newDir = "null" THEN char.direction ELSE newDir,
         x |-> centerX, y |-> centerY]
      picks == pickNewDirection(g, tileX, tileY, char.direction)
      decisions ==
        IF ~nearCenter THEN {asIs}
        ELSE IF ~isWalkable(g, (tileX + vec.dx) * UNIT, (tileY + vec.dy) * UNIT)
        THEN {fromCenter(newDir) : newDir \in picks}
        ELSE {asIs} \cup (IF Cardinality(getValidDirections(g, tileX, tileY)) > 2
                          THEN {fromCenter(newDir) : newDir \in picks \ {"null"}}
                          ELSE {})
      moved(d) ==
        LET nextX == d.x + directionVectors(d.dir).dx * char.speed
            nextY == d.y + directionVectors(d.dir).dy * char.speed
        IN IF ~isWalkable(g, nextX, nextY)
           THEN [char EXCEPT !.x = centerX, !.y = centerY, !.direction = d.dir]
           ELSE [char EXCEPT !.x = nextX, !.y = nextY, !.direction = d.dir]
  IN IF ~isWalkable(g, tileX * UNIT, tileY * UNIT)
     THEN IF WalkableTiles(g) # {}
          THEN {[char EXCEPT !.x = newTile[1] * UNIT + UNIT \div 2,
                             !.y = newTile[2] * UNIT + UNIT \div 2,
                             !.direction = dir] :
                  newTile \in WalkableTiles(g), dir \in Direction}
          ELSE {char}
     ELSE {moved(d) : d \in decisions}

\* updateCharacters(): every character in array order
RECURSIVE updateCharacters(_, _, _)
updateCharacters(g, cs, i) ==
  IF i > Len(cs) THEN {cs}
  ELSE UNION {updateCharacters(g, [cs EXCEPT ![i] = c], i + 1) :
                c \in updateSingleCharacter(g, cs[i])}

\* GameBoard.handleTilesDrag with the tile tool: every dragged cell of the
\* grid that is grass becomes a paving tile, its own origin
handleTilesDrag(g, tiles) ==
  [c \in Cells |->
     IF c \in tiles /\ g[c].type = "grass"
     THEN [g[c] EXCEPT !.type = "tile", !.isOrigin = TRUE,
                       !.originX = c[1], !.originY = c[2]]
     ELSE g[c]]

\* A plaza drawn with the tile tool: a cross of five tiles
PlazaTiles == {<<7, 9>>, <<6, 10>>, <<7, 10>>, <<8, 10>>, <<7, 11>>}

\* The grids handed to this scene: a two-way road of one block with its
\* sidewalks, the plaza, the middle tile of the plaza alone, and the empty
\* board
SceneGrids ==
  {handleTwoWayRoadDrag(EmptyGrid, LanesOf(4, <<4, 4>>, "horizontal", TRUE),
                        "horizontal", TRUE),
   handleTilesDrag(EmptyGrid, PlazaTiles),
   handleTilesDrag(EmptyGrid, {<<7, 10>>}),
   EmptyGrid}

\* MainScene.updateGrid of this scene: the grid reference is replaced
SceneUpdateGrid(g) ==
  /\ grid' = g
  /\ lastOp' = "updateGrid"
  /\ ret' = "void"
  /\ UNCHANGED <<sceneCharacters, intersections, tileToIntersection, cars, characters,
                 elapsed, exact, stale, seen, edits, walker>>

\* MainScene.spawnCharacter with the tile and direction the random draws
\* pick; the character type is cosmetic and left out. The number of
\* characters is bounded: a call that would add one beyond MaxPeds is left out.
SceneSpawnCharacter(tile, dir) ==
  /\ IF WalkableTiles(grid) = {}
     THEN /\ tile = <<0, 0>> /\ dir = "up"
          /\ sceneCharacters' = sceneCharacters
          /\ ret' = "false"
     ELSE /\ tile \in WalkableTiles(grid)
          /\ Len(sceneCharacters) < MaxPeds
          /\ sceneCharacters' = Append(sceneCharacters, [id |-> Len(sceneCharacters) + 1,
                                     x |-> tile[1] * UNIT + UNIT \div 2,
                                     y |-> tile[2] * UNIT + UNIT \div 2,
                                     direction |-> dir, speed |-> CHARACTER_SPEED])
          /\ ret' = "true"
  /\ lastOp' = "spawnCharacter"
  /\ UNCHANGED <<grid, intersections, tileToIntersection, cars, characters, elapsed,
                 exact, stale, seen, edits, walker>>

\* MainScene.update of this scene, as far as the characters go
SceneUpdate ==
  /\ sceneCharacters' \in updateCharacters(grid, sceneCharacters, 1)
  /\ lastOp' = "updateCharacters"
  /\ ret' = "void"
  /\ UNCHANGED <<grid, intersections, tileToIntersection, cars, characters, elapsed,
                 exact, stale, seen, edits, walker>>

NextScenePedestrians ==
  \/ \E g \in SceneGrids : SceneUpdateGrid(g)
  \/ \E tile \in WalkableTiles(grid) \cup {<<0, 0>>} : \E dir \in Direction :
       SceneSpawnCharacter(tile, dir)
  \/ SceneUpdate

SpecScenePedestrians == Init /\ [][NextScenePedestrians]_vars

(***************************************************************************)
(* Properties of the traffic lights                                        *)
(***************************************************************************)
NonRed == {"green", "yellow"}

\* C1: in every reachable state of every intersection at most one axis is
\* non-red: getLightColor never gives green or yellow for a north-south
\* direction and, in the same state, green or yellow for an east-west one.
C1_OneAxisNonRed ==
  \A t \in DOMAIN tileToIntersection :
    \A dNS \in {"up", "down"} : \A dEW \in {"left", "right"} :
      ~ /\ getLightColor(intersections, tileToIntersection,
                         t[1] * UNIT, t[2] * UNIT, dNS) \in NonRed
        /\ getLightColor(intersections, tileToIntersection,
                         t[1] * UNIT, t[2] * UNIT, dEW) \in NonRed

\* C1 witness: an intersection tile whose east-west light is yellow
C1_Witness ==
  \E t \in DOMAIN tileToIntersection :
    getLightColor(intersections, tileToIntersection,
                  t[1] * UNIT + 1, t[2] * UNIT + 1, "left") = "yellow"

PhaseCycle ==
  <<"ns_green", "ns_yellow", "all_red_1", "ew_green", "ew_yellow", "all_red_2">>

CycleIndex(p) == CHOOSE i \in 1 .. 6 : PhaseCycle[i] = p

\* C2: under update(deltaMs) every change of phase of every intersection goes
\* to the immediate successor in the fixed cycle; none is skipped.
C2_PhaseSuccessor ==
  [][lastOp' = "update" =>
       \A k \in 1 .. Len(intersections) :
         intersections'[k].phase # intersections[k].phase =>
           CycleIndex(intersections'[k].phase)
             = (CycleIndex(intersections[k].phase) % 6) + 1]_vars

\* C2 witness: an update has just wrapped the cycle from ALL_RED_2 to NS_GREEN
C2_Witness ==
  /\ lastOp = "update"
  /\ elapsed > GREEN_DURATION_MS
  /\ \E k \in 1 .. Len(intersections) :
       intersections[k].phase = "ns_green" /\ intersections[k].timer = GREEN_DURATION_MS

CycleDurationMs == 2 * (GREEN_DURATION_MS + YELLOW_DURATION_MS + ALL_RED_DURATION_MS)

FreshGreen ==
  \A k \in 1 .. Len(intersections) :
    intersections[k].phase = "ns_green" /\ intersections[k].timer = GREEN_DURATION_MS

\* C3 as stated: after update calls whose deltaMs sum to the 30000 ms of the
\* six phases, a freshly detected intersection is in NS_GREEN with timer 10000.
C3_CycleClosure_Original == elapsed = CycleDurationMs => FreshGreen

\* C3 amended: the same, for runs in which no update overshot a phase end
\* (every phase change happened with the timer at exactly 0).
C3_CycleClosure_Exact == (elapsed = CycleDurationMs /\ exact) => FreshGreen

\* C3 witness: an intersection after 30000 ms of updates that each ended on
\* the phase boundaries
C3_Witness == elapsed = CycleDurationMs /\ exact /\ Len(intersections) > 0

\* C4: canCrossAtCrosswalk is never true at once for a crosswalk with a
\* north-south approach and one with an east-west approach of an intersection.
C4_CrosswalkMutualExclusion ==
  \A k \in 1 .. Len(intersections) : \A a, b \in 1 .. 4 :
    LET cwa == intersections[k].crosswalks[a]
        cwb == intersections[k].crosswalks[b]
    IN (cwa.approachDirection \in {"up", "down"}
          /\ cwb.approachDirection \in {"left", "right"})
         => ~(canCrossAtCrosswalk(intersections[k], cwa)
                /\ canCrossAtCrosswalk(intersections[k], cwb))

\* C4 witness: a north-south crosswalk is open during EW_GREEN
C4_Witness ==
  \E k \in 1 .. Len(intersections) : \E a \in 1 .. 4 :
    /\ intersections[k].phase = "ew_green"
    /\ intersections[k].crosswalks[a].approachDirection \in {"up", "down"}
    /\ canCrossAtCrosswalk(intersections[k], intersections[k].crosswalks[a])

(***************************************************************************)
(* Properties of intersection detection                                    *)
(***************************************************************************)
TurnOrigins ==
  {c \in Cells : grid[c].type = "roadTurn" /\ grid[c].isOrigin
                   /\ grid[c].laneDirection # "none"}

Adjacent(a, b) ==
  LET dx == Abs(a[1] - b[1])
      dy == Abs(a[2] - b[2])
  IN dx <= 3 * ROAD_LANE_SIZE /\ dy <= 3 * ROAD_LANE_SIZE

\* The cluster of a turn tile: everything linked to it by a chain of
\* adjacent turn tiles
RECURSIVE ClusterFrom(_)
ClusterFrom(S) ==
  LET n == S \cup {d \in TurnOrigins : \E t \in S : Adjacent(t, d)}
  IN IF n = S THEN S ELSE ClusterFrom(n)

MixedAxes(C) ==
  /\ \E t \in C : grid[t].laneDirection \in {"up", "down"}
  /\ \E t \in C : grid[t].laneDirection \in {"left", "right"}

\* The sides of a cluster's bounding box on which the scan area holds a
\* RoadLane cell
ApproachSides(C) ==
  LET minX == CHOOSE v \in {t[1] : t \in C} : \A t \in C : v <= t[1]
      minY == CHOOSE v \in {t[2] : t \in C} : \A t \in C : v <= t[2]
      maxX == (CHOOSE v \in {t[1] : t \in C} : \A t \in C : v >= t[1]) + ROAD_LANE_SIZE
      maxY == (CHOOSE v \in {t[2] : t \in C} : \A t \in C : v >= t[2]) + ROAD_LANE_SIZE
      lanes == {c \in Cells : grid[c].type = "roadLane"}
      wideX(c) == c[1] >= minX - ROAD_LANE_SIZE /\ c[1] < maxX + ROAD_LANE_SIZE
      wideY(c) == c[2] >= minY - ROAD_LANE_SIZE /\ c[2] < maxY + ROAD_LANE_SIZE
  IN {s \in Sides :
        \E c \in lanes :
          CASE s = "north" -> wideX(c) /\ c[2] >= minY - 2 * ROAD_LANE_SIZE /\ c[2] < minY
            [] s = "south" -> wideX(c) /\ c[2] >= maxY /\ c[2] < maxY + 2 * ROAD_LANE_SIZE
            [] s = "west" -> wideY(c) /\ c[1] >= minX - 2 * ROAD_LANE_SIZE /\ c[1] < minX
            [] s = "east" -> wideY(c) /\ c[1] >= maxX /\ c[1] < maxX + 2 * ROAD_LANE_SIZE}

Signalled(C) ==
  \E k \in 1 .. Len(intersections) :
    /\ {intersections[k].tiles[i] : i \in 1 .. Len(intersections[k].tiles)} = C
    /\ \A t \in C : t \in DOMAIN tileToIntersection
                      /\ tileToIntersection[t] = intersections[k].id

Unsignalled(C) ==
  /\ \A t \in C : t \notin DOMAIN tileToIntersection
  /\ \A k \in 1 .. Len(intersections) :
       {intersections[k].tiles[i] : i \in 1 .. Len(intersections[k].tiles)} \cap C = {}

\* C9: a cluster of turn tiles with both a north-south and an east-west tile
\* becomes a signalled intersection if and only if road approaches are found
\* on at least 3 of its 4 sides: never with 2 or fewer, always with 3 or 4.
C9_SignalIffThreeApproaches ==
  \A t \in TurnOrigins :
    LET C == ClusterFrom({t})
    IN MixedAxes(C) =>
         IF Cardinality(ApproachSides(C)) >= 3 THEN Signalled(C) ELSE Unsignalled(C)

\* C9 witness: a mixed cluster with approaches on exactly 3 sides carries a signal
C9_Witness ==
  \E t \in TurnOrigins :
    LET C == ClusterFrom({t})
    IN MixedAxes(C) /\ Cardinality(ApproachSides(C)) = 3 /\ Signalled(C)

\* C10: right after setGrid(grid) every intersection in the manager is in
\* NS_GREEN with timer 10000 and all four of its crosswalk pedestrian sets
\* empty, whatever the state was before the call.
C10_SetGridResets ==
  lastOp = "setGrid" =>
    \A k \in 1 .. Len(intersections) :
      /\ intersections[k].phase = "ns_green"
      /\ intersections[k].timer = GREEN_DURATION_MS
      /\ \A c \in DOMAIN intersections[k].crosswalks :
           intersections[k].crosswalks[c].pedestrianIds = {}

\* C10 witness: setGrid has just replaced intersections that were in a later
\* phase or had pedestrians registered
C10_Witness == lastOp = "setGrid" /\ stale /\ Len(intersections) > 0

(***************************************************************************)
(* Properties of the crosswalk registry                                    *)
(***************************************************************************)
\* The tiles from which a car heading in direction d has a tile of the
\* crosswalk 1, 2 or 3 subtiles ahead
TilesBefore(cw, d) ==
  {<<x - i * directionVectors(d).dx, y - i * directionVectors(d).dy>> :
     <<x, y, i>> \in (cw.minX .. cw.maxX) \X (cw.minY .. cw.maxY) \X (1 .. 3)}

\* C5: whenever a crosswalk of any intersection has a registered pedestrian,
\* canCarEnterCrosswalkZone is false for every vehicle position within 3
\* subtiles of that crosswalk along its travel direction, also where the
\* crosswalk bands of several intersections cover the same tile.
C5_PedestrianYieldAbsolute ==
  \A k \in 1 .. Len(intersections) : \A c \in 1 .. 4 :
    intersections[k].crosswalks[c].pedestrianIds # {} =>
      \A d \in Direction : \A t \in TilesBefore(intersections[k].crosswalks[c], d) :
        ~canCarEnterCrosswalkZone(intersections, TilePos(t[1]), TilePos(t[2]), d)

(***************************************************************************)
(* Properties of the vehicles                                              *)
(***************************************************************************)
\* The lane block under a position: its origin, <<-1, -1>> off the road
BlockAt(g, x, y) ==
  LET cell == CellAt(g, x \div UNIT, y \div UNIT)
  IN IF cell.type \in {"roadLane", "roadTurn"} THEN <<cell.originX, cell.originY>>
     ELSE <<-1, -1>>

AdjacentBlocks(a, b) ==
  Abs(a[1] - b[1]) + Abs(a[2] - b[2]) = ROAD_LANE_SIZE

\* C6: over any sequence of TrafficManager.update calls a vehicle never moves
\* from one lane block into an adjacent lane block whose stored laneDirection
\* is the exact opposite of the direction the vehicle travels when it enters.
C6_NoHeadOnEntry ==
  [][lastOp' = "trafficUpdate" =>
       \A i \in 1 .. Len(cars) :
         LET from == BlockAt(grid, cars[i].x, cars[i].y)
             to == BlockAt(grid', cars'[i].x, cars'[i].y)
         IN (from # <<-1, -1>> /\ to # <<-1, -1>> /\ AdjacentBlocks(from, to))
              => grid'[to].laneDirection # oppositeDirection(cars'[i].direction)]_vars

\* C6 witness: an update has just carried a car over a block boundary into a
\* block whose lane runs across the car's direction
C6_Witness ==
  /\ lastOp = "trafficUpdate"
  /\ \E i \in 1 .. Len(cars) :
       LET vec == directionVectors(cars[i].direction)
           to == BlockAt(grid, cars[i].x, cars[i].y)
           from == BlockAt(grid, cars[i].x - vec.dx * cars[i].speed,
                           cars[i].y - vec.dy * cars[i].speed)
       IN /\ from # <<-1, -1>> /\ to # <<-1, -1>> /\ AdjacentBlocks(from, to)
          /\ grid[to].laneDirection \notin {cars[i].direction,
                                            oppositeDirection(cars[i].direction)}

\* C7: between two visits of an ordinary RoadLane block a vehicle's lastTurn
\* is set to left or right at most once, whatever pickNextDirection chooses
\* in between.
C7_OneTurnPerIntersection ==
  \A i \in 1 .. Len(cars) : cars[i].turns <= 1

(***************************************************************************)
(* Properties of the frame                                                 *)
(***************************************************************************)
\* C8: within one frame the traffic-light phases are advanced before any
\* vehicle and before any pedestrian is updated: both managers are called
\* with the phases of this frame in force.
C8_LightsAdvanceFirst ==
  lastOp = "frame" =>
    /\ seen.citizens = PhasesOf(intersections)
    /\ seen.cars = PhasesOf(intersections)

(***************************************************************************)
(* Scenario: the 4-way crossing                                            *)
(***************************************************************************)
\* The turn blocks of the grid are one 2x2 group with directions
\* Down/Left/Right/Up, and RoadLane approaches lie on all four sides
IsFourWayCrossing ==
  LET turns == TurnOrigins
  IN /\ Cardinality(turns) = 4
     /\ \E c \in turns :
          /\ turns = {c, <<c[1] + ROAD_LANE_SIZE, c[2]>>,
                       <<c[1], c[2] + ROAD_LANE_SIZE>>,
                       <<c[1] + ROAD_LANE_SIZE, c[2] + ROAD_LANE_SIZE>>}
          /\ grid[c].laneDirection = "down"
          /\ grid[<<c[1] + ROAD_LANE_SIZE, c[2]>>].laneDirection = "left"
          /\ grid[<<c[1], c[2] + ROAD_LANE_SIZE>>].laneDirection = "right"
          /\ grid[<<c[1] + ROAD_LANE_SIZE, c[2] + ROAD_LANE_SIZE>>].laneDirection = "up"
          /\ ApproachSides(turns) = Sides

\* C11: on a 4-way crossing setGrid yields exactly one intersection, in phase
\* NS_GREEN, and once the update calls since then total exactly 10000 ms its
\* phase is NS_YELLOW.
C11_FourWayCrossing ==
  IsFourWayCrossing =>
    /\ Len(intersections) = 1
    /\ lastOp = "setGrid" => intersections[1].phase = "ns_green"
    /\ elapsed = GREEN_DURATION_MS => intersections[1].phase = "ns_yellow"

\* C11 witness: the crossing after updates that total 10000 ms, the last of
\* which turned the light yellow
C11_Witness ==
  /\ IsFourWayCrossing
  /\ lastOp = "update"
  /\ elapsed = GREEN_DURATION_MS
  /\ Len(intersections) = 1
  /\ intersections[1].phase = "ns_yellow"

(***************************************************************************)
(* Properties of spawning                                                  *)
(***************************************************************************)
\* The origin cells of the drivable blocks that carry a lane direction
DrivableOrigins ==
  {c \in Cells : /\ grid[c].isOrigin
                 /\ grid[c].type \in {"roadLane", "roadTurn"}
                 /\ grid[c].laneDirection \in Direction}

\* The center of the 2x2 block with origin o
BlockCenter(o) == [x |-> (o[1] + 1) * UNIT, y |-> (o[2] + 1) * UNIT]

\* Some vehicle is less than 1.5 subtiles from the center of block o
VehicleNear(o) ==
  \E k \in 1 .. Len(cars) :
    LET dx == cars[k].x - BlockCenter(o).x
        dy == cars[k].y - BlockCenter(o).y
    IN 4 * (dx * dx + dy * dy) < 9 * UNIT * UNIT

\* The grid holds one drivable block only, a RoadLane block heading right
IsSingleRightBlock ==
  LET origins == DrivableOrigins
  IN /\ Cardinality(origins) = 1
     /\ \A o \in origins :
          /\ grid[o].type = "roadLane"
          /\ grid[o].laneDirection = "right"
          /\ \A c \in Cells : grid[c].type \in {"roadLane", "roadTurn"} =>
               (c[1] - o[1] \in {0, 1} /\ c[2] - o[2] \in {0, 1})

\* C12: spawnCar either returns false and leaves the vehicle list as it was,
\* which it does when the grid has no drivable origin cell or a vehicle is
\* within 1.5 subtiles of the chosen block's center, or returns true and
\* appends exactly one vehicle at the center of a drivable block, with that
\* block's lane direction and waiting = 0. It succeeds when no vehicle is
\* near any block (the first spawn on a single block) and fails when a
\* vehicle is near every block (an immediate second spawn on it).
C12_SpawnCarOutcome ==
  [][lastOp' = "spawnCar" =>
       LET origins == DrivableOrigins
           free == {o \in origins : ~VehicleNear(o)}
       IN /\ \/ /\ ret' = "false"
                /\ cars' = cars
                /\ origins = {} \/ free # origins
             \/ /\ ret' = "true"
                /\ Len(cars') = Len(cars) + 1
                /\ SubSeq(cars', 1, Len(cars)) = cars
                /\ \E o \in free :
                     /\ cars'[Len(cars')].x = BlockCenter(o).x
                     /\ cars'[Len(cars')].y = BlockCenter(o).y
                     /\ cars'[Len(cars')].direction = grid[o].laneDirection
                     /\ cars'[Len(cars')].waiting = 0
          /\ (origins # {} /\ free = origins) => ret' = "true"
          /\ free = {} => ret' = "false"
  ]_vars

\* C12 witness: on the single block a vehicle stands at the center and the
\* spawnCar that followed has returned false
C12_Witness ==
  /\ IsSingleRightBlock
  /\ lastOp = "spawnCar"
  /\ ret = "false"
  /\ Len(cars) = 1
  /\ \E o \in DrivableOrigins :
       cars[1].x = BlockCenter(o).x /\ cars[1].y = BlockCenter(o).y

(***************************************************************************)
(* Properties of dead ends                                                 *)
(***************************************************************************)
\* The origin of the aligned 2x2 block that holds position (x, y)
BlockOf(x, y) ==
  <<(x \div (ROAD_LANE_SIZE * UNIT)) * ROAD_LANE_SIZE,
    (y \div (ROAD_LANE_SIZE * UNIT)) * ROAD_LANE_SIZE>>

\* Direction d leads from block o into a lane block that may be entered
LeadsOn(o, d) ==
  LET n == <<o[1] + directionVectors(d).dx * ROAD_LANE_SIZE,
             o[2] + directionVectors(d).dy * ROAD_LANE_SIZE>>
  IN /\ n \in DrivableOrigins
     /\ grid[n].laneDirection # oppositeDirection(d)

\* The directions pickNextDirection can offer a car on block o
OfferedDirections(o, car) ==
  LET laneDir == grid[o].laneDirection
  IN {laneDir}
       \cup (IF grid[o].type = "roadTurn" /\ car.lastTurn \notin {"left", "right"}
             THEN {rightTurnDirection(laneDir), leftTurnDirection(laneDir)} ELSE {})
       \cup (IF grid[o].type = "roadTurn" THEN {uTurnMoveDir(laneDir)} ELSE {})

\* The car stands at the center of a drivable block that is a dead end for it
AtDeadEnd(car) ==
  LET o == BlockOf(car.x, car.y)
  IN /\ o \in DrivableOrigins
     /\ car.x = BlockCenter(o).x /\ car.y = BlockCenter(o).y
     /\ ~LeadsOn(o, car.direction)
     /\ \A d \in OfferedDirections(o, car) : ~LeadsOn(o, d)

\* C13: a vehicle at the center of a lane block from which neither straight
\* on nor any direction pickNextDirection offers leads into an enterable lane
\* is left at that center, with its direction unchanged, by every update for
\* as long as the grid stays the same.
C13_DeadEndParks ==
  [][(lastOp' \in {"trafficUpdate", "frame"} /\ Len(cars') = Len(cars)) =>
       \A i \in 1 .. Len(cars) :
         AtDeadEnd(cars[i]) =>
           /\ cars'[i].x = cars[i].x
           /\ cars'[i].y = cars[i].y
           /\ cars'[i].direction = cars[i].direction
  ]_vars

\* C13 witness: a vehicle that has driven to a dead end stands at its center
\* after an update
C13_Witness ==
  /\ lastOp = "trafficUpdate"
  /\ Len(intersections) > 0
  /\ \E i \in 1 .. Len(cars) : AtDeadEnd(cars[i]) /\ cars[i].lastTurn # "undefined"

(***************************************************************************)
(* Scenario: the single isolated lane block                                *)
(***************************************************************************)
\* C14 as stated: on a single isolated Right block an update either moves the
\* spawned vehicle towards the block's right edge or leaves it halted beyond
\* the center, at that edge.
C14_MovesToFarEdge ==
  [][(IsSingleRightBlock /\ lastOp' = "trafficUpdate" /\ Len(cars) = 1 /\ Len(cars') = 1) =>
       \E o \in DrivableOrigins :
         \/ cars'[1].x > cars[1].x
         \/ cars'[1].x = cars[1].x /\ cars[1].x > BlockCenter(o).x
  ]_vars

\* C14 amended: on a single isolated Right block the spawned vehicle stays at
\* the block's center, heading right, through every update: it never moves
\* towards the right edge.
C14_StaysAtCenter ==
  (Len(cars) >= 1 /\ IsSingleRightBlock) =>
    \E o \in DrivableOrigins :
      \A i \in 1 .. Len(cars) :
        /\ cars[i].x = BlockCenter(o).x
        /\ cars[i].y = BlockCenter(o).y
        /\ cars[i].direction = "right"

\* C14 witness: the vehicle on the single block after an update
C14_Witness ==
  /\ IsSingleRightBlock
  /\ lastOp = "trafficUpdate"
  /\ Len(cars) = 1
  /\ cars[1].waiting = 0

ApproachLight(it, cw) ==
  getColorForDirection(it.phase, cw.approachDirection \in {"up", "down"})

C17_LightCompliance ==
  [][(lastOp' \in {"trafficUpdate", "frame"} /\ Len(cars') = Len(cars)) =>
       \A i \in 1 .. Len(cars) :
         LET from == BlockOf(cars[i].x, cars[i].y)
             to == BlockOf(cars'[i].x, cars'[i].y)
         IN (to # from /\ from \notin DOMAIN tileToIntersection'
               /\ to \in DOMAIN tileToIntersection')
              => canProceed(intersections', tileToIntersection',
                            cars'[i].x, cars'[i].y, cars'[i].direction)
  ]_vars

(***************************************************************************)
(* Properties of clearing                                                  *)
(***************************************************************************)
\* C18: right after clearCars the vehicle count is 0; right after
\* clearCharacters the pedestrian count is 0 and no pedestrian id is
\* registered in any crosswalk of any intersection.
C18_ClearsAreTotal ==
  /\ lastOp = "clearCars" => Len(cars) = 0
  /\ lastOp = "clearCharacters" =>
       /\ Cardinality(characters) = 0
       /\ \A k \in 1 .. Len(intersections) : \A w \in 1 .. 4 :
            intersections[k].crosswalks[w].pedestrianIds = {}

\* C18 witness: clearCharacters has just removed pedestrians or
\* registrations, with a vehicle on the grid
C18_Witness ==
  /\ lastOp = "clearCharacters"
  /\ stale
  /\ Len(intersections) > 0
  /\ Len(cars) > 0

(***************************************************************************)
(* Properties of the waiting counter                                       *)
(***************************************************************************)
\* The cars as car i finds them during an update: the cars before it in the
\* array already updated, the others not yet
CarsSeenBy(before, after, i) ==
  [k \in 1 .. Len(before) |-> IF k < i THEN after[k] ELSE before[k]]

\* Another car lies ahead of the car, less than 1 subtile from the point
\* 1.5 subtiles in front of it
BlockedAhead(car, others) ==
  LET vec == directionVectors(car.direction)
  IN \E k \in 1 .. Len(others) :
       LET dx == 2 * (others[k].x - car.x) - 3 * vec.dx * UNIT
           dy == 2 * (others[k].y - car.y) - 3 * vec.dy * UNIT
       IN /\ others[k].id # car.id
          /\ dx * dx + dy * dy < 4 * UNIT * UNIT
          /\ (others[k].x - car.x) * vec.dx + (others[k].y - car.y) * vec.dy > 0

\* The car is on a drivable block
OnLane(car) == BlockOf(car.x, car.y) \in DrivableOrigins

\* C19: the waiting count of every vehicle stays within 0 .. 120. It is 0
\* when the vehicle is spawned and when it is relocated to a road; an update
\* that finds the vehicle blocked adds exactly 1, up to 120; an update that
\* finds it on a lane and not blocked sets it to 0.
C19_WaitingCounter ==
  [][/\ \A i \in 1 .. Len(cars') : cars'[i].waiting \in 0 .. 120
     /\ (lastOp' = "spawnCar" /\ ret' = "true") => cars'[Len(cars')].waiting = 0
     /\ (lastOp' \in {"trafficUpdate", "frame"} /\ Len(cars') = Len(cars)) =>
          \A i \in 1 .. Len(cars) :
            IF ~OnLane(cars[i])
            THEN DrivableOrigins # {} => cars'[i].waiting = 0
            ELSE IF BlockedAhead(cars[i], CarsSeenBy(cars, cars', i))
            THEN cars'[i].waiting = Min(cars[i].waiting + 1, 120)
            ELSE cars'[i].waiting = 0
  ]_vars

\* C19 witness: a vehicle has waited 120 frames behind another one
C19_Witness ==
  /\ lastOp = "trafficUpdate"
  /\ \E i \in 1 .. Len(cars) :
       cars[i].waiting = 120 /\ OnLane(cars[i]) /\ BlockedAhead(cars[i], cars)

(***************************************************************************)
(* Properties of the grid                                                  *)
(***************************************************************************)
\* C20: the managers never write the grid. setGrid stores the grid it is
\* handed with every cell as it is, and spawnCar, update, clearCars and the
\* frame's light update leave every cell (type, isOrigin, originX/Y,
\* laneDirection) unchanged.
C20_CoreNeverWritesGrid ==
  [][IF lastOp' = "setGrid"
     THEN \E l \in LayoutIds : grid' = LayoutGrid[l]
     ELSE \A c \in Cells : grid'[c] = grid[c]
  ]_vars

\* C20 witness: on the grid that setGrid was handed, a frame has advanced
\* the lights and updated a vehicle that is on a block of the intersection
C20_Witness ==
  /\ lastOp = "frame"
  /\ grid = LayoutGrid[<<"junction", Sides>>]
  /\ \E k \in 1 .. Len(intersections) : intersections[k].phase # "ns_green"
  /\ \E i \in 1 .. Len(cars) : BlockOf(cars[i].x, cars[i].y) \in DOMAIN tileToIntersection

(***************************************************************************)
(* Properties of the board's lane blocks                                   *)
(***************************************************************************)
\* The cell c of grid g lies in the 2x2 block its origin fields name, and
\* the four cells of that block agree
LaneBlockIntact(g, c) ==
  LET block == BlockCells(g[c].originX, g[c].originY) IN
    /\ c \in block
    /\ block \subseteq Cells
    /\ \A b \in block :
         /\ g[b].type = g[c].type
         /\ g[b].laneDirection = g[c].laneDirection
         /\ g[b].originX = g[c].originX
         /\ g[b].originY = g[c].originY
         /\ g[b].isOrigin <=> (b = <<g[c].originX, g[c].originY>>)

OwnersOf(tileX, tileY) ==
  {k \in 1 .. Len(intersections) :
     \E j \in 1 .. Len(intersections[k].tiles) :
       /\ intersections[k].tiles[j][1] <= tileX
       /\ tileX < intersections[k].tiles[j][1] + ROAD_LANE_SIZE
       /\ intersections[k].tiles[j][2] <= tileY
       /\ tileY < intersections[k].tiles[j][2] + ROAD_LANE_SIZE}

\* C22: registerPedestrianAtIntersection(id, tileX, tileY) adds id to all
\* four crosswalks of the intersection that owns the lane block of the
\* tile, changes nothing when no signalled intersection owns it, and never
\* changes the crosswalks of another intersection.
C22_RegisterAtIntersection ==
  \A p \in PedIds : \A t \in Cells :
    LET after == registerPedestrianAtIntersection(intersections, tileToIntersection,
                                                  p, t[1], t[2])
        owners == OwnersOf(t[1], t[2])
    IN /\ Len(after) = Len(intersections)
       /\ \A k \in 1 .. Len(intersections) :
            IF k \in owners
            THEN /\ \A w \in 1 .. 4 :
                      after[k].crosswalks[w] =
                        [intersections[k].crosswalks[w] EXCEPT
                           !.pedestrianIds = @ \cup {p}]
                 /\ [after[k] EXCEPT !.crosswalks = intersections[k].crosswalks]
                      = intersections[k]
            ELSE after[k] = intersections[k]

\* A pedestrian was registered at one of two intersections: it is in all
\* four crosswalks there and in none of the other intersection
C22_Witness ==
  /\ lastOp = "registerPedestrianAtIntersection"
  /\ Len(intersections) = 2
  /\ \E k \in 1 .. 2 :
       /\ \A w \in 1 .. 4 : intersections[k].crosswalks[w].pedestrianIds = PedIds
       /\ \A w \in 1 .. 4 : intersections[3 - k].crosswalks[w].pedestrianIds = {}

\* C23: whatever enterCrosswalk, registerPedestrianAtIntersection and
\* leaveCrosswalk calls came before, after removeFromAllCrosswalks(id) the
\* id is a member of no crosswalk of any intersection and the registrations
\* of every other pedestrian id are as they were.
C23_RemoveFromAll ==
  [][lastOp' = "removeFromAllCrosswalks" =>
     \A p \in RegistryPeds :
       RemoveFromAllCrosswalks(p) =>
         /\ Len(intersections') = Len(intersections)
         /\ \A k \in 1 .. Len(intersections) : \A w \in 1 .. 4 :
              /\ p \notin intersections'[k].crosswalks[w].pedestrianIds
              /\ \A q \in RegistryPeds \ {p} :
                   q \in intersections'[k].crosswalks[w].pedestrianIds
                     <=> q \in intersections[k].crosswalks[w].pedestrianIds]_vars

\* Pedestrian 1 has been removed while another pedestrian stays registered
\* at both intersections
C23_Witness ==
  /\ lastOp = "removeFromAllCrosswalks"
  /\ Len(intersections) = 2
  /\ \A k \in 1 .. 2 : \A w \in 1 .. 4 :
       intersections[k].crosswalks[w].pedestrianIds = {2}

(***************************************************************************)
(* Properties of the light queries                                         *)
(***************************************************************************)
\* The tiles the queries are probed on: the grid and a ring around it
ProbeTiles == (-1 .. GRID_WIDTH) \X (-1 .. GRID_HEIGHT)

\* Offsets within a tile, in position units: its first and last position
ProbeOffsets == {0, UNIT - 1}

\* The light of the direction's axis is red in the phase
AxisRed(phase, direction) ==
  IF direction \in {"up", "down"} THEN phase \notin {"ns_green", "ns_yellow"}
  ELSE phase \notin {"ew_green", "ew_yellow"}

\* C24: canProceed(x, y, direction) is false exactly when the lane block
\* containing (x, y) belongs to a signalled intersection whose light for
\* the direction's axis is red; outside every signalled intersection
\* getLightColor is null and canProceed is true.
C24_CanProceed ==
  \A c \in ProbeTiles : \A o \in ProbeOffsets :
    LET x == c[1] * UNIT + o
        y == c[2] * UNIT + o
        owners == OwnersOf(c[1], c[2])
    IN \A d \in Direction :
         /\ ~canProceed(intersections, tileToIntersection, x, y, d)
              <=> \E k \in owners : AxisRed(intersections[k].phase, d)
         /\ owners = {} =>
              /\ getLightColor(intersections, tileToIntersection, x, y, d) = "null"
              /\ canProceed(intersections, tileToIntersection, x, y, d)

\* In EW_YELLOW a car inside the intersection may proceed heading left and
\* may not heading down
C24_Witness ==
  \E k \in 1 .. Len(intersections) :
    /\ intersections[k].phase = "ew_yellow"
    /\ LET x == intersections[k].tiles[1][1] * UNIT + UNIT - 1
           y == intersections[k].tiles[1][2] * UNIT + UNIT - 1
       IN /\ canProceed(intersections, tileToIntersection, x, y, "left")
          /\ ~canProceed(intersections, tileToIntersection, x, y, "down")

\* The light of the direction's axis is yellow in the phase
AxisYellow(phase, direction) ==
  IF direction \in {"up", "down"} THEN phase = "ns_yellow" ELSE phase = "ew_yellow"

\* Distances to the intersection, in position units: 0, just below 2,
\* exactly 2, just above 2 and 3 subtiles
ProbeDistances == {0, 2 * UNIT - 1, 2 * UNIT, 2 * UNIT + 1, 3 * UNIT}

\* C25: shouldStop(x, y, direction, distance) is true on red, false on
\* green, true on yellow exactly when distance > 2, and false where there
\* is no light.
C25_ShouldStop ==
  \A c \in ProbeTiles :
    LET x == c[1] * UNIT + UNIT \div 2
        y == c[2] * UNIT + UNIT \div 2
        owners == OwnersOf(c[1], c[2])
    IN \A d \in Direction : \A dist \in ProbeDistances :
         shouldStop(intersections, tileToIntersection, x, y, d, dist)
           <=> \E k \in owners :
                 \/ AxisRed(intersections[k].phase, d)
                 \/ AxisYellow(intersections[k].phase, d) /\ dist > 2 * UNIT

\* In NS_YELLOW a car heading down inside the intersection is told to stop
\* from just beyond 2 subtiles and not from exactly 2
C25_Witness ==
  \E k \in 1 .. Len(intersections) :
    /\ intersections[k].phase = "ns_yellow"
    /\ LET x == intersections[k].tiles[1][1] * UNIT + UNIT \div 2
           y == intersections[k].tiles[1][2] * UNIT + UNIT \div 2
       IN /\ shouldStop(intersections, tileToIntersection, x, y, "down", 2 * UNIT + 1)
          /\ ~shouldStop(intersections, tileToIntersection, x, y, "down", 2 * UNIT)

(***************************************************************************)
(* Properties of the topology queries                                      *)
(***************************************************************************)
\* Coordinates outside the grid, negative ones included, up to two tiles
\* away from it
OutsideTiles ==
  {c \in (-ROAD_LANE_SIZE .. GRID_WIDTH + 1) \X (-ROAD_LANE_SIZE .. GRID_HEIGHT + 1) :
     ~InGrid(c[1], c[2])}

\* The directions in which a lane block of the grid starts exactly two
\* tiles from (x, y)
LaneNeighbours(x, y) ==
  {d \in Direction :
     LET nx == x + directionVectors(d).dx * ROAD_LANE_SIZE
         ny == y + directionVectors(d).dy * ROAD_LANE_SIZE
     IN /\ InGrid(nx, ny)
        /\ grid[<<nx, ny>>].type \in {"roadLane", "roadTurn"}
        /\ grid[<<nx, ny>>].isOrigin
        /\ grid[<<nx, ny>>].originX = nx /\ grid[<<nx, ny>>].originY = ny}

\* C26: for every (x, y) outside the grid, negative coordinates included,
\* the topology queries return instead of throwing: hasRoadLane,
\* isAtIntersection and isDeadEnd return false, getLaneDirection returns
\* null, getAdjacentLanes returns the in-grid neighbours only, and
\* canPlaceRoadLane returns valid = false with reason out_of_bounds.
C26_OutOfBoundsQueries ==
  \A c \in OutsideTiles :
    /\ ~hasRoadLane(grid, c[1], c[2])
    /\ ~isAtIntersection(grid, c[1], c[2])
    /\ ~isDeadEnd(grid, c[1], c[2])
    /\ getLaneDirection(grid, c[1], c[2]) = "null"
    /\ {adj.direction : adj \in getAdjacentLanes(grid, c[1], c[2])}
         = LaneNeighbours(c[1], c[2])
    /\ \A adj \in getAdjacentLanes(grid, c[1], c[2]) : InGrid(adj.x, adj.y)
    /\ \A allowOverlap \in BOOLEAN :
         canPlaceRoadLane(grid, c[1], c[2], allowOverlap)
           = [valid |-> FALSE, reason |-> "out_of_bounds"]

\* Lanes reach the west edge of the grid: the query two tiles west of the
\* grid finds the lane at the edge and nothing outside
C26_Witness ==
  /\ hasRoadLane(grid, 0, 4)
  /\ {adj.direction : adj \in getAdjacentLanes(grid, -ROAD_LANE_SIZE, 4)} = {"right"}

(***************************************************************************)
(* Properties of the pedestrian's crossing                                 *)
(***************************************************************************)
\* The walk signal of crosswalk c of intersection k: the other axis has
\* green and at least MIN_CROSSING_TIME_MS of it are left
WalkSignal(inters, k, c) ==
  /\ inters[k].timer >= MIN_CROSSING_TIME_MS
  /\ IF inters[k].crosswalks[c].approachDirection \in {"up", "down"}
     THEN inters[k].phase = "ew_green"
     ELSE inters[k].phase = "ns_green"

FullDuration(phase) ==
  IF phase \in {"ns_green", "ew_green"} THEN 10000
  ELSE IF phase \in {"ns_yellow", "ew_yellow"} THEN 2000
  ELSE 3000

\* C28: one update(deltaMs) call advances an intersection by at most one
\* phase, however large deltaMs is; when it advances, the timer is set to
\* exactly the new phase's full duration (10000 green, 2000 yellow, 3000
\* all-red) and the overshoot of the old timer is dropped; otherwise the
\* phase stays and the timer has gone down and is still positive.
C28_NoCatchUp ==
  [][lastOp' = "update" =>
       \A k \in 1 .. Len(intersections) :
         \/ /\ intersections'[k].phase = intersections[k].phase
            /\ intersections'[k].timer < intersections[k].timer
            /\ intersections'[k].timer > 0
         \/ /\ CycleIndex(intersections'[k].phase)
                 = (CycleIndex(intersections[k].phase) % 6) + 1
            /\ intersections'[k].timer = FullDuration(intersections'[k].phase)]_vars

\* 12000 ms after setGrid, spent in updates that overshot the 10000 ms of
\* green, the light is in the phase after green with its full 2000 ms
C28_Witness ==
  /\ lastOp = "update"
  /\ elapsed = 12000
  /\ ~exact
  /\ \E k \in 1 .. Len(intersections) :
       /\ intersections[k].phase = "ns_yellow"
       /\ intersections[k].timer = 2000

\* C29: a blocked vehicle does not move. In an update that finds a vehicle
\* on a lane with another vehicle ahead of it (positive dot product with
\* its direction) and less than 1.0 subtile from the point 1.5 subtiles
\* ahead, the vehicle keeps its x, y, direction and lastTurn and every other
\* field; only waiting changes, and it does not go down.
C29_BlockedStaysPut ==
  [][(lastOp' = "trafficUpdate" /\ Len(cars') = Len(cars)) =>
       \A i \in 1 .. Len(cars) :
         (OnLane(cars[i]) /\ BlockedAhead(cars[i], CarsSeenBy(cars, cars', i))) =>
           /\ cars'[i].x = cars[i].x
           /\ cars'[i].y = cars[i].y
           /\ cars'[i].direction = cars[i].direction
           /\ cars'[i].lastTurn = cars[i].lastTurn
           /\ cars'[i].waiting >= cars[i].waiting
           /\ [cars'[i] EXCEPT !.waiting = cars[i].waiting] = cars[i]]_vars

\* A vehicle has just been stopped behind another one: it is blocked and
\* has waited one frame
C29_Witness ==
  /\ lastOp = "trafficUpdate"
  /\ \E i \in 1 .. Len(cars) :
       cars[i].waiting = 1 /\ OnLane(cars[i]) /\ BlockedAhead(cars[i], cars)


(***************************************************************************)
(* Properties of mutual blocking                                           *)
(***************************************************************************)
\* Car j is a car that isBlockedByOtherCar finds ahead of car i: it lies
\* less than 1 subtile from the point 1.5 subtiles in front of car i, on
\* the side car i is heading to
BlockedBy(i, j) ==
  LET vec == directionVectors(cars[i].direction)
      dx == 2 * (cars[j].x - cars[i].x) - 3 * vec.dx * UNIT
      dy == 2 * (cars[j].y - cars[i].y) - 3 * vec.dy * UNIT
  IN /\ cars[j].id # cars[i].id
     /\ dx * dx + dy * dy < 4 * UNIT * UNIT
     /\ (cars[j].x - cars[i].x) * vec.dx + (cars[j].y - cars[i].y) * vec.dy > 0

\* The block the car is on leads nowhere for it: neither straight on nor
\* any direction pickNextDirection offers enters a lane
OnDeadEndBlock(car) ==
  LET o == BlockOf(car.x, car.y)
  IN \/ o \notin DrivableOrigins
     \/ /\ ~LeadsOn(o, car.direction)
        /\ \A d \in OfferedDirections(o, car) : ~LeadsOn(o, d)

\* A set of cars, none on a dead-end block, each blocked by a car of the
\* set: following the blocking car from any of them runs into a cycle
CircularWaits ==
  {S \in SUBSET (1 .. Len(cars)) :
     /\ S # {}
     /\ \A i \in S : ~OnDeadEndBlock(cars[i]) /\ \E j \in S : BlockedBy(i, j)}

\* C30: on a grid that stays the same, no state is reached in which a set
\* of vehicles, none of them at a dead end, block each other in a cycle,
\* each held by isBlockedByOtherCar because of the next one.
C30_NoCircularWait == CircularWaits = {}

(***************************************************************************)
(* Properties of relocation                                                *)
(***************************************************************************)
\* The position is not on a lane: outside the grid, on a cell that is not
\* drivable, or on a cell whose origin cell has no direction
NotOnLane(x, y) ==
  LET c == <<x \div UNIT, y \div UNIT>>
  IN \/ c \notin Cells
     \/ grid[c].type \notin {"roadLane", "roadTurn"}
     \/ LET o == <<IF grid[c].originX # -1 THEN grid[c].originX
                   ELSE (c[1] \div ROAD_LANE_SIZE) * ROAD_LANE_SIZE,
                   IF grid[c].originY # -1 THEN grid[c].originY
                   ELSE (c[2] \div ROAD_LANE_SIZE) * ROAD_LANE_SIZE>>
        IN o \notin Cells \/ grid[o].laneDirection \notin Direction

OffLane(car) == NotOnLane(car.x, car.y)

\* C31: an update that finds a vehicle off every lane puts it at the center
\* of a drivable origin block that has a direction, heading in that block's
\* direction, with waiting 0 and the same id; when the grid has no such
\* block the vehicle is left as it is.
C31_RelocationInsteadOfError ==
  [][(lastOp' = "trafficUpdate" /\ Len(cars') = Len(cars)) =>
       \A i \in 1 .. Len(cars) :
         OffLane(cars[i]) =>
           IF DrivableOrigins = {}
           THEN cars'[i] = cars[i]
           ELSE /\ \E o \in DrivableOrigins :
                     /\ cars'[i].x = BlockCenter(o).x
                     /\ cars'[i].y = BlockCenter(o).y
                     /\ cars'[i].direction = grid[o].laneDirection
                /\ cars'[i].waiting = 0
                /\ cars'[i].id = cars[i].id]_vars

\* C31 witness: after an update on the grid of the facing lanes a car that
\* has driven before (lastTurn is set) stands at the center of block (2, 4).
\* No lane leads into that block and a car that drives off its center does
\* not come back, so the update has relocated the car there
C31_Witness ==
  /\ lastOp = "trafficUpdate"
  /\ grid = LayoutGrid[<<"merge", {}>>]
  /\ Len(cars) = 1
  /\ cars[1].lastTurn = "straight"
  /\ cars[1].direction = "right"
  /\ cars[1].waiting = 0
  /\ cars[1].x = BlockCenter(<<2, 4>>).x /\ cars[1].y = BlockCenter(<<2, 4>>).y

\* C31 witness, second case: an update has left a car as it was on a grid
\* without any lane
C31_WitnessNoRoad ==
  /\ lastOp = "trafficUpdate"
  /\ DrivableOrigins = {}
  /\ Len(cars) = 1

(***************************************************************************)
(* Properties of the vehicle list                                          *)
(***************************************************************************)
\* C32: an update and a setGrid keep the number of vehicles and the id,
\* speed and carType of each one; the number of vehicles grows only by one,
\* on a spawnCar that returns true, and drops only to 0, on clearCars.
C32_NeverDestroyedIndividually ==
  [][/\ lastOp' \in {"trafficUpdate", "setGrid"} =>
          (/\ Len(cars') = Len(cars)
           /\ \A i \in 1 .. Len(cars) :
                /\ cars'[i].id = cars[i].id
                /\ cars'[i].speed = cars[i].speed
                /\ cars'[i].carType = cars[i].carType)
     /\ Len(cars') > Len(cars) =>
          (Len(cars') = Len(cars) + 1 /\ lastOp' = "spawnCar" /\ ret' = "true")
     /\ Len(cars') < Len(cars) =>
          (Len(cars') = 0 /\ lastOp' = "clearCars")]_vars

\* C32 witness: two vehicles are on a grid that was handed over after they
\* were spawned, one of them not where it was spawned, and an update has
\* just run
C32_Witness ==
  /\ lastOp = "trafficUpdate"
  /\ grid = LayoutGrid[<<"single", {}>>]
  /\ Len(cars) = 2
  /\ cars[1].id = 1 /\ cars[2].id = 2
  /\ cars[1].x # cars[2].x

(***************************************************************************)
(* Properties of staying on the road                                       *)
(***************************************************************************)
\* The car is within two steps of the center of its block on both axes
NearBlockCenter(car) ==
  LET center == BlockCenter(BlockOf(car.x, car.y))
  IN /\ car.x - center.x < 2 * car.speed /\ center.x - car.x < 2 * car.speed
     /\ car.y - center.y < 2 * car.speed /\ center.y - car.y < 2 * car.speed

\* The position one step of the car ahead of (x, y) in direction d
StepAhead(car, x, y, d) ==
  [x |-> x + directionVectors(d).dx * car.speed,
   y |-> y + directionVectors(d).dy * car.speed]

\* C33: on a grid with at least one directed lane block every vehicle is on
\* a RoadLane or RoadTurn cell after every update. A vehicle that was on a
\* lane and not blocked ends one step ahead, in its new direction, of where
\* it was or of its block's center, or else at its block's center; away
\* from the center it drives straight on when the step stays on a lane and
\* is put at the block's center, heading as before, when the step leaves
\* all lanes.
C33_StaysOnRoad ==
  [][(lastOp' = "trafficUpdate" /\ Len(cars') = Len(cars) /\ DrivableOrigins # {}) =>
       \A i \in 1 .. Len(cars) :
         LET car == cars[i]
             after == cars'[i]
             center == BlockCenter(BlockOf(car.x, car.y))
             atCenter == after.x = center.x /\ after.y = center.y
             straight == StepAhead(car, car.x, car.y, car.direction)
         IN /\ ~NotOnLane(after.x, after.y)
            /\ grid[<<after.x \div UNIT, after.y \div UNIT>>].type \in {"roadLane", "roadTurn"}
            /\ (~OffLane(car) /\ ~BlockedAhead(car, CarsSeenBy(cars, cars', i))) =>
                 (/\ \/ atCenter
                     \/ [x |-> after.x, y |-> after.y]
                          \in {StepAhead(car, car.x, car.y, after.direction),
                               StepAhead(car, center.x, center.y, after.direction)}
                  /\ ~NearBlockCenter(car) =>
                       (/\ after.direction = car.direction
                        /\ IF NotOnLane(straight.x, straight.y)
                           THEN atCenter
                           ELSE after.x = straight.x /\ after.y = straight.y))]_vars

\* C33 witness: on the three-block road, whose lanes all head right, a car
\* stands at the center of block (4, 4) heading up after an update: it was
\* driving up through that block when the road to the north was taken away,
\* and the step off the road was replaced by the snap to the center
C33_Witness ==
  /\ lastOp = "trafficUpdate"
  /\ grid = LayoutGrid[<<"lane", {}>>]
  /\ Len(cars) = 1
  /\ cars[1].direction = "up"
  /\ cars[1].x = BlockCenter(<<4, 4>>).x /\ cars[1].y = BlockCenter(<<4, 4>>).y

(***************************************************************************)
(* Properties of the U-turn                                                *)
(***************************************************************************)
\* The values lastTurn can have
LastTurnKinds == {"left", "right", "straight", "none", "undefined"}

\* The direction across the road, towards the lane that runs the other way
\* under right-hand traffic
TowardsParallelLane(d) ==
  CASE d = "right" -> "up"
    [] d = "left" -> "down"
    [] d = "down" -> "right"
    [] d = "up" -> "left"

\* The block next to block o in direction d is a lane block with a
\* direction other than the one opposite to d
EntersLane(o, d) ==
  LET n == <<o[1] + directionVectors(d).dx * ROAD_LANE_SIZE,
             o[2] + directionVectors(d).dy * ROAD_LANE_SIZE>>
  IN /\ n \in Cells
     /\ grid[n].isOrigin
     /\ grid[n].type \in {"roadLane", "roadTurn"}
     /\ grid[n].laneDirection \in Direction
     /\ grid[n].laneDirection # oppositeDirection(d)

\* C34: for a vehicle on any lane block, with any turn memory,
\* pickNextDirection returns the U-turn (turn kind none, heading for the
\* parallel lane) only when the block is RoadTurn and straight, right and
\* left are all not candidates; when there is no candidate at all, the
\* U-turn included, it returns the lane's direction with turn kind none.
C34_UTurnLastResort ==
  \A o \in LaneOrigins(grid) : \A lt \in LastTurnKinds :
    LET laneDir == grid[o].laneDirection
        turns == grid[o].type = "roadTurn" /\ lt \notin {"left", "right"}
        straightOk == EntersLane(o, laneDir)
        rightOk == turns /\ EntersLane(o, rightTurnDirection(laneDir))
        leftOk == turns /\ EntersLane(o, leftTurnDirection(laneDir))
        uTurnOk == grid[o].type = "roadTurn" /\ EntersLane(o, TowardsParallelLane(laneDir))
        picks == pickNextDirection(grid, [lastTurn |-> lt],
                                   getLaneAt(grid, getLaneCenter(o[1], o[2]).x,
                                             getLaneCenter(o[1], o[2]).y))
    IN /\ \A p \in picks :
            (p.turn = "none" /\ p.dir = TowardsParallelLane(laneDir)) =>
              (grid[o].type = "roadTurn" /\ ~straightOk /\ ~rightOk /\ ~leftOk)
       /\ (~straightOk /\ ~rightOk /\ ~leftOk /\ ~uTurnOk) =>
            picks = {[dir |-> laneDir, turn |-> "none"]}

\* C34 witness: the grid has a RoadTurn block at the end of a two-way road
\* where a vehicle that has already turned gets the U-turn, and a lane
\* block with no candidate at all
C34_Witness ==
  /\ lastOp = "handleTwoWayRoadDrag"
  /\ \E o \in LaneOrigins(grid) :
       /\ grid[o].type = "roadTurn"
       /\ pickNextDirection(grid, [lastTurn |-> "left"],
                            getLaneAt(grid, getLaneCenter(o[1], o[2]).x,
                                      getLaneCenter(o[1], o[2]).y))
            = {[dir |-> TowardsParallelLane(grid[o].laneDirection), turn |-> "none"]}
  /\ \E o \in LaneOrigins(grid) : \A d \in Direction : ~EntersLane(o, d)

(***************************************************************************)
(* Properties of the crosswalk geometry                                    *)
(***************************************************************************)
\* The subtiles a crosswalk covers
CrosswalkTiles(cw) == (cw.minX .. cw.maxX) \X (cw.minY .. cw.maxY)

\* The bounding box of the turn tiles of an intersection, in subtiles: the
\* 2x2 blocks of its origins included
BoxOf(intersection) ==
  LET origins == {intersection.tiles[k] : k \in 1 .. Len(intersection.tiles)}
      xs == {t[1] : t \in origins}
      ys == {t[2] : t \in origins}
  IN [left |-> CHOOSE v \in xs : \A w \in xs : v <= w,
      right |-> (CHOOSE v \in xs : \A w \in xs : v >= w) + ROAD_LANE_SIZE - 1,
      top |-> CHOOSE v \in ys : \A w \in ys : v <= w,
      bottom |-> (CHOOSE v \in ys : \A w \in ys : v >= w) + ROAD_LANE_SIZE - 1]

\* The band of the given depth just outside the box on the side that
\* traffic heading in direction d comes in from
BandOutside(box, d, depth) ==
  CASE d = "down" -> (box.left .. box.right) \X (box.top - depth .. box.top - 1)
    [] d = "up" -> (box.left .. box.right) \X (box.bottom + 1 .. box.bottom + depth)
    [] d = "right" -> (box.left - depth .. box.left - 1) \X (box.top .. box.bottom)
    [] d = "left" -> (box.right + 1 .. box.right + depth) \X (box.top .. box.bottom)

\* C35: every intersection has exactly four crosswalks, one for each
\* approach direction; the one for Down is the band 2 subtiles deep just
\* north of the bounding box of the turn tiles, Up just south, Right just
\* west, Left just east; no crosswalk tile is inside the box and no two
\* crosswalks of an intersection share a tile.
C35_CrosswalkGeometry ==
  \A k \in 1 .. Len(intersections) :
    LET cws == intersections[k].crosswalks
        box == BoxOf(intersections[k])
        inside == (box.left .. box.right) \X (box.top .. box.bottom)
    IN /\ Len(cws) = 4
       /\ \A d \in Direction :
            \E a \in 1 .. 4 :
              /\ cws[a].approachDirection = d
              /\ \A b \in 1 .. 4 : cws[b].approachDirection = d => b = a
              /\ CrosswalkTiles(cws[a]) = BandOutside(box, d, 2)
       /\ \A a \in 1 .. 4 : CrosswalkTiles(cws[a]) \cap inside = {}
       /\ \A a, b \in 1 .. 4 :
            a # b => CrosswalkTiles(cws[a]) \cap CrosswalkTiles(cws[b]) = {}

\* C35 witness: setGrid has found two intersections, one of them with a
\* bounding box that is not a square and with a band that
\* reaches beyond the edge of the grid
C35_Witness ==
  /\ lastOp = "setGrid"
  /\ Len(intersections) = 2
  /\ \E k \in 1 .. 2 :
       LET box == BoxOf(intersections[k])
       IN /\ box.right - box.left # box.bottom - box.top
          /\ \E a \in 1 .. 4 : CrosswalkTiles(intersections[k].crosswalks[a]) \ Cells # {}

(***************************************************************************)
(* Properties of the grouping of turn tiles                                *)
(***************************************************************************)
\* The origins in the tiles list of intersection k
TilesOfIntersection(k) ==
  {intersections[k].tiles[i] : i \in 1 .. Len(intersections[k].tiles)}

\* C36: the tiles lists of the intersections hold RoadTurn origins of the
\* grid, each origin once and in one intersection only; two RoadTurn
\* origins that differ by at most 6 subtiles on both axes are never in
\* different intersections; and tileToIntersection maps an origin to the id
\* of an intersection exactly when the origin is in that intersection's
\* tiles list.
C36_TurnTilesPartitioned ==
  LET turns == TurnOrigins
      n == Len(intersections)
  IN /\ \A k \in 1 .. n :
          /\ TilesOfIntersection(k) \subseteq turns
          /\ Cardinality(TilesOfIntersection(k)) = Len(intersections[k].tiles)
     /\ \A j, k \in 1 .. n :
          j # k => /\ TilesOfIntersection(j) \cap TilesOfIntersection(k) = {}
                   /\ intersections[j].id # intersections[k].id
                   /\ \A a \in TilesOfIntersection(j) : \A b \in TilesOfIntersection(k) :
                        \/ a[1] - b[1] > 6 \/ b[1] - a[1] > 6
                        \/ a[2] - b[2] > 6 \/ b[2] - a[2] > 6
     /\ \A o \in Cells : \A k \in 1 .. n :
          (o \in DOMAIN tileToIntersection /\ tileToIntersection[o] = intersections[k].id)
            <=> o \in TilesOfIntersection(k)
     /\ \A o \in DOMAIN tileToIntersection :
          \E k \in 1 .. n : tileToIntersection[o] = intersections[k].id

\* C36 witness: setGrid has found two intersections on a grid; one of them
\* has two turn tiles 6 subtiles apart, and the two intersections have turn
\* tiles that are 8 subtiles apart on one axis
C36_Witness ==
  /\ lastOp = "setGrid"
  /\ Len(intersections) = 2
  /\ \E k \in 1 .. 2 : \E a, b \in TilesOfIntersection(k) : b[1] - a[1] = 6
  /\ \E a \in TilesOfIntersection(1) : \E b \in TilesOfIntersection(2) : b[1] - a[1] = 8

(***************************************************************************)
(* Properties of entering and leaving a crosswalk                          *)
(***************************************************************************)
\* The crosswalks, as <<intersection, crosswalk>> positions, whose bounds
\* contain the tile
CrosswalksOver(tile) ==
  {q \in (1 .. Len(intersections)) \X (1 .. 4) :
     tile \in CrosswalkTiles(intersections[q[1]].crosswalks[q[2]])}

\* The first of them in the order of the intersections and, within one
\* intersection, of its crosswalks
FirstCrosswalkOver(tile) ==
  CHOOSE q \in CrosswalksOver(tile) :
    \A r \in CrosswalksOver(tile) : q[1] < r[1] \/ (q[1] = r[1] /\ q[2] <= r[2])

\* The pedestrians registered in the crosswalk at position q
RegisteredIn(inters, q) == inters[q[1]].crosswalks[q[2]].pedestrianIds

\* after differs from the registrations now at most in the pedestrians of
\* the one crosswalk at position q, which are ids there
OnlyCrosswalkChanged(after, q, ids) ==
  /\ RegisteredIn(after, q) = ids
  /\ [after EXCEPT ![q[1]].crosswalks[q[2]].pedestrianIds =
        RegisteredIn(intersections, q)] = intersections

\* enterCrosswalk and leaveCrosswalk, for every pedestrian and every tile
\* of the grid, change the first crosswalk over the tile only, adding or
\* removing the pedestrian there, and change nothing on a tile that is in
\* no crosswalk
EnterLeaveTouchOneCrosswalk ==
  \A p \in RegistryPeds : \A tile \in Cells :
    LET entered == enterCrosswalk(intersections, p, TilePos(tile[1]), TilePos(tile[2]))
        left == leaveCrosswalk(intersections, p, TilePos(tile[1]), TilePos(tile[2]))
    IN IF CrosswalksOver(tile) = {}
       THEN entered = intersections /\ left = intersections
       ELSE LET q == FirstCrosswalkOver(tile)
            IN /\ OnlyCrosswalkChanged(entered, q, RegisteredIn(intersections, q) \cup {p})
               /\ OnlyCrosswalkChanged(left, q, RegisteredIn(intersections, q) \ {p})

\* C37 as stated: enterCrosswalk and leaveCrosswalk change at most the first
\* crosswalk over the position, so that enterCrosswalk followed by
\* leaveCrosswalk with the same pedestrian and position restores the
\* registrations, and leaveCrosswalk removes no registration in another
\* crosswalk.
C37_EnterLeaveRestores ==
  /\ EnterLeaveTouchOneCrosswalk
  /\ \A p \in RegistryPeds : \A tile \in Cells :
       leaveCrosswalk(enterCrosswalk(intersections, p, TilePos(tile[1]), TilePos(tile[2])),
                      p, TilePos(tile[1]), TilePos(tile[2]))
         = intersections

\* C37 amended: enterCrosswalk and leaveCrosswalk change at most the first
\* crosswalk over the position; enterCrosswalk followed by leaveCrosswalk
\* with the same pedestrian and position restores the registrations when
\* the pedestrian was not registered in that crosswalk before, and
\* otherwise leaves the pedestrian unregistered there; leaveCrosswalk
\* removes no registration in another crosswalk.
C37_EnterLeaveRestoresIfNew ==
  /\ EnterLeaveTouchOneCrosswalk
  /\ \A p \in RegistryPeds : \A tile \in Cells :
       LET x == TilePos(tile[1])
           y == TilePos(tile[2])
           both == leaveCrosswalk(enterCrosswalk(intersections, p, x, y), p, x, y)
       IN IF CrosswalksOver(tile) = {}
          THEN both = intersections
          ELSE LET q == FirstCrosswalkOver(tile)
               IN IF p \in RegisteredIn(intersections, q)
                  THEN OnlyCrosswalkChanged(both, q, RegisteredIn(intersections, q) \ {p})
                  ELSE both = intersections

\* C37 witness: leaveCrosswalk has taken pedestrian 1, registered at an
\* intersection in all four crosswalks, off one of them; the pedestrian is
\* still registered in the other three
C37_Witness ==
  /\ lastOp = "leaveCrosswalk"
  /\ \E k \in 1 .. Len(intersections) :
       Cardinality({w \in 1 .. 4 : 1 \in intersections[k].crosswalks[w].pedestrianIds}) = 3

(***************************************************************************)
(* Properties of dead-end detection                                        *)
(***************************************************************************)
\* A lane block starts at c: a road cell of the grid that is the origin of
\* its own block
LaneBlockAt(c) ==
  /\ c \in Cells
  /\ grid[c].type \in {"roadLane", "roadTurn"}
  /\ grid[c].isOrigin
  /\ grid[c].originX = c[1] /\ grid[c].originY = c[2]

\* The block one block from c in direction d
BlockNextTo(c, d) ==
  <<c[1] + directionVectors(d).dx * ROAD_LANE_SIZE,
    c[2] + directionVectors(d).dy * ROAD_LANE_SIZE>>

\* Some lane block next to c has a direction across the direction d
PerpendicularNeighbour(c, d) ==
  \E e \in Direction :
    LET n == BlockNextTo(c, e)
    IN /\ LaneBlockAt(n)
       /\ IF d \in {"left", "right"} THEN grid[n].laneDirection \in {"up", "down"}
          ELSE grid[n].laneDirection \in {"left", "right"}

\* C38: isDeadEnd(x, y) is true exactly when (x, y) is a road origin cell
\* with a direction, no lane block lies one block ahead in that direction
\* and no adjacent lane block has a perpendicular direction; isDeadEnd and
\* isAtIntersection are never both true of the same cell.
C38_DeadEndExactly ==
  \A c \in Cells \cup OutsideTiles :
    /\ isDeadEnd(grid, c[1], c[2])
         <=> /\ c \in Cells
             /\ grid[c].type \in {"roadLane", "roadTurn"}
             /\ grid[c].isOrigin
             /\ grid[c].laneDirection \in Direction
             /\ ~LaneBlockAt(BlockNextTo(c, grid[c].laneDirection))
             /\ ~PerpendicularNeighbour(c, grid[c].laneDirection)
    /\ ~(isDeadEnd(grid, c[1], c[2]) /\ isAtIntersection(grid, c[1], c[2]))

\* C38 witness: the edited grid has a dead end, and a lane block with
\* nothing ahead that is no dead end because a lane crosses next to it
C38_Witness ==
  /\ edits > 0
  /\ \E c \in Cells : isDeadEnd(grid, c[1], c[2])
  /\ \E c \in Cells :
       /\ LaneBlockAt(c)
       /\ grid[c].laneDirection \in Direction
       /\ ~LaneBlockAt(BlockNextTo(c, grid[c].laneDirection))
       /\ isAtIntersection(grid, c[1], c[2])


(***************************************************************************)
(* Properties of the pedestrians of the scene                              *)
(***************************************************************************)
\* The neighbour of tile c in direction dir is a sidewalk or a paving tile
WalkableNeighbour(g, c, dir) ==
  LET n == <<c[1] + directionVectors(dir).dx, c[2] + directionVectors(dir).dy>>
  IN n \in Cells /\ g[n].type \in {"sidewalk", "tile"}

\* The tiles pickNewDirection is examined on: every tile of the grid while
\* the scene has no pedestrian, the tile of each pedestrian afterwards
TilesToPickFrom ==
  IF sceneCharacters = <<>> THEN Cells
  ELSE {<<Floor(sceneCharacters[i].x), Floor(sceneCharacters[i].y)>> :
          i \in DOMAIN sceneCharacters}

OnWalkable(g, char) ==
  LET t == <<Floor(char.x), Floor(char.y)>>
  IN t \in Cells /\ g[t].type \in {"sidewalk", "tile"}

\* The pedestrian is at the centre of tile t
AtCenterOf(char, t) ==
  /\ char.x = t[1] * UNIT + UNIT \div 2
  /\ char.y = t[2] * UNIT + UNIT \div 2

\* One update of pedestrian before into pedestrian after on grid g keeps it
\* on walkable ground
StaysWalkable(g, before, after) ==
  LET t == <<Floor(before.x), Floor(before.y)>>
      vec == directionVectors(after.direction)
      stepFrom(x, y) == /\ after.x = x + vec.dx * before.speed
                        /\ after.y = y + vec.dy * before.speed
      anyWalkable == \E c \in Cells : g[c].type \in {"sidewalk", "tile"}
  IN IF OnWalkable(g, before)
     THEN /\ OnWalkable(g, after)
          /\ \/ AtCenterOf(after, t)
             \/ stepFrom(before.x, before.y)
             \/ stepFrom(t[1] * UNIT + UNIT \div 2, t[2] * UNIT + UNIT \div 2)
     ELSE IF anyWalkable
     THEN \E c \in Cells : g[c].type \in {"sidewalk", "tile"} /\ AtCenterOf(after, c)
     ELSE after = before

C40_WitnessNoWalkable ==
  /\ lastOp = "updateCharacters"
  /\ grid = EmptyGrid
  /\ sceneCharacters # <<>>

====
